---- MODULE Spec2Model ----
(***************************************************************************)
(* Model of the version resolution and mutation orchestrator               *)
(* (services.VersionService) of kingoftowns/version-service, with the      *)
(* pieces of pkg/semver, internal/models, the Redis cache, the Git durable *)
(* store and the GitLab tag client that it depends on.                     *)
(*                                                                         *)
(* Strings are sequences of one-character strings, so that parsing and     *)
(* formatting are computed and not assumed.  Error messages are sequences  *)
(* of words, searched by containsAny the way the code searches bytes.      *)
(***************************************************************************)
EXTENDS Integers, Sequences, FiniteSets, TLC

\* ------------------------------------------------------------------------
\* Bounds of the model
\* ------------------------------------------------------------------------

\* A behaviour is explored within one of three budgets (Budgets below),
\* which trade concurrency against backend failures:
\*   one request task, one call, MaxFaults failures;
\*   one request task, MaxCalls calls one after the other, MaxFaults - 1 failures;
\*   NCallers concurrent request tasks, MaxCalls calls, MaxFaults - 2 failures.
\* A failure is a cache error, a cache expiry or a durable-store error; an
\* outage of the durable store that lasts over the retries of one background
\* write counts once.  The outcome of Initialize is not counted.
NCallers == 2

MaxCalls == 2

MaxFaults == 2
\* minutes the clock of the health verdict runs
MaxTime == 7
\* failures the health state of the health verdict counts up to
MaxRecorded == 4
\* the version numbers of the function calls run from 0 to MaxNum, with 9
\* and 10 for the change in the number of digits
MaxNum == 1
\* the longest identifier ParseAppID is called with
MaxIdLen == 5
\* the most tags a project has when findLatestSemanticVersion is called
MaxTags == 3

\* ------------------------------------------------------------------------
\* Characters and small string helpers
\* ------------------------------------------------------------------------

Digits == <<"0", "1", "2", "3", "4", "5", "6", "7", "8", "9">>

IsDigit(ch) == \E i \in 1..10 : Digits[i] = ch

DigitVal(ch) == (CHOOSE i \in 1..10 : Digits[i] = ch) - 1

\* fmt "%d" of a non-negative int
RECURSIVE Itoa(_)
Itoa(n) == IF n < 10 THEN <<Digits[n + 1]>>
           ELSE Itoa(n \div 10) \o <<Digits[(n % 10) + 1]>>

\* strconv.Atoi of a string of decimal digits
RECURSIVE Atoi(_)
Atoi(s) == IF s = <<>> THEN 0
           ELSE Atoi(SubSeq(s, 1, Len(s) - 1)) * 10 + DigitVal(s[Len(s)])

\* length of the longest prefix of s made of digits (greedy \d+)
RECURSIVE DigitRun(_)
DigitRun(s) == IF s = <<>> \/ ~IsDigit(Head(s)) THEN 0
               ELSE 1 + DigitRun(Tail(s))

Drop(s, n) == SubSeq(s, n + 1, Len(s))

Take(s, n) == SubSeq(s, 1, n)

\* strings.Split(s, sep) for a one-character separator
RECURSIVE Split(_, _)
Split(s, sep) ==
    IF \A i \in 1..Len(s) : s[i] # sep THEN <<s>>
    ELSE LET k == CHOOSE i \in 1..Len(s) :
                      s[i] = sep /\ \A j \in 1..(i - 1) : s[j] # sep
         IN  <<Take(s, k - 1)>> \o Split(Drop(s, k), sep)

\* strings.Join(parts, sep)
RECURSIVE Join(_, _)
Join(parts, sep) ==
    IF parts = <<>> THEN <<>>
    ELSE IF Len(parts) = 1 THEN parts[1]
    ELSE parts[1] \o sep \o Join(Tail(parts), sep)

\* strings.Compare: byte-wise lexicographic order; characters are ordered
\* by their ASCII code
Ascii(ch) ==
    CASE ch = "-" -> 45
      [] ch = "." -> 46
      [] ch = "\n" -> 10
      [] IsDigit(ch) -> 48 + DigitVal(ch)
      [] ch = "a" -> 97
      [] ch = "b" -> 98
      [] ch = "c" -> 99
      [] ch = "d" -> 100
      [] ch = "e" -> 101
      [] ch = "r" -> 114
      [] ch = "v" -> 118
      [] ch = "x" -> 120
      [] OTHER -> 63

RECURSIVE StrCompare(_, _)
StrCompare(a, b) ==
    IF a = <<>> /\ b = <<>> THEN 0
    ELSE IF a = <<>> THEN -1
    ELSE IF b = <<>> THEN 1
    ELSE IF Ascii(Head(a)) < Ascii(Head(b)) THEN -1
    ELSE IF Ascii(Head(a)) > Ascii(Head(b)) THEN 1
    ELSE StrCompare(Tail(a), Tail(b))

\* ------------------------------------------------------------------------
\* pkg/semver
\* ------------------------------------------------------------------------

NoVersion == [ok |-> FALSE, Major |-> 0, Minor |-> 0, Patch |-> 0, Prerelease |-> <<>>]

\* semver.Parse: ^(\d+)\.(\d+)\.(\d+)(?:-(.+))?$
\* '.' matches every character but a line feed, and '$' the end of the text
Parse(version) ==
    LET n1 == DigitRun(version)
        r1 == Drop(version, n1)
        n2 == IF r1 # <<>> /\ Head(r1) = "." THEN DigitRun(Tail(r1)) ELSE 0
        r2 == IF n2 > 0 THEN Drop(Tail(r1), n2) ELSE <<>>
        n3 == IF r2 # <<>> /\ Head(r2) = "." THEN DigitRun(Tail(r2)) ELSE 0
        r3 == IF n3 > 0 THEN Drop(Tail(r2), n3) ELSE <<>>
    IN  IF n1 > 0 /\ n2 > 0 /\ n3 > 0
           /\ (r3 = <<>> \/ (/\ Head(r3) = "-" /\ Len(r3) >= 2
                              /\ \A i \in 2..Len(r3) : r3[i] # "\n"))
        THEN [ok |-> TRUE,
              Major |-> Atoi(Take(version, n1)),
              Minor |-> Atoi(Take(Tail(r1), n2)),
              Patch |-> Atoi(Take(Tail(r2), n3)),
              Prerelease |-> IF r3 = <<>> THEN <<>> ELSE Tail(r3)]
        ELSE NoVersion

\* (mutant) the prerelease is left out
String_NoPrerelease(v) ==
    Itoa(v.Major) \o <<".">> \o Itoa(v.Minor) \o <<".">> \o Itoa(v.Patch)

\* (*Version).String
String(v) ==
    LET base == Itoa(v.Major) \o <<".">> \o Itoa(v.Minor) \o <<".">> \o Itoa(v.Patch)
    IN  IF v.Prerelease # <<>> THEN base \o <<"-">> \o v.Prerelease ELSE base

IncrementPatch(v) ==
    [ok |-> TRUE, Major |-> v.Major, Minor |-> v.Minor, Patch |-> v.Patch + 1,
     Prerelease |-> <<>>]

\* (mutant) the patch number is kept
IncrementMinor_KeepPatch(v) ==
    [ok |-> TRUE, Major |-> v.Major, Minor |-> v.Minor + 1, Patch |-> v.Patch,
     Prerelease |-> <<>>]

IncrementMinor(v) ==
    [ok |-> TRUE, Major |-> v.Major, Minor |-> v.Minor + 1, Patch |-> 0,
     Prerelease |-> <<>>]

IncrementMajor(v) ==
    [ok |-> TRUE, Major |-> v.Major + 1, Minor |-> 0, Patch |-> 0,
     Prerelease |-> <<>>]

\* (mutant) the sha is never shortened
WithDevSuffix_WholeSha(v, sha) ==
    [ok |-> TRUE, Major |-> v.Major, Minor |-> v.Minor, Patch |-> v.Patch,
     Prerelease |-> <<"d", "e", "v", "-">> \o sha]

WithDevSuffix(v, sha) ==
    LET shortSHA == IF Len(sha) > 7 THEN Take(sha, 7) ELSE sha
    IN  [ok |-> TRUE, Major |-> v.Major, Minor |-> v.Minor, Patch |-> v.Patch,
         Prerelease |-> <<"d", "e", "v", "-">> \o shortSHA]

IsValid(version) == Parse(version).ok

\* (mutant) a prerelease is greater than its release
Compare_PrereleaseGreater(v1, v2) ==
    LET version1 == Parse(v1)
        version2 == Parse(v2)
    IN  IF ~version1.ok \/ ~version2.ok THEN [err |-> TRUE, val |-> 0]
        ELSE IF version1.Major # version2.Major
             THEN [err |-> FALSE, val |-> version1.Major - version2.Major]
        ELSE IF version1.Minor # version2.Minor
             THEN [err |-> FALSE, val |-> version1.Minor - version2.Minor]
        ELSE IF version1.Patch # version2.Patch
             THEN [err |-> FALSE, val |-> version1.Patch - version2.Patch]
        ELSE IF version1.Prerelease = <<>> /\ version2.Prerelease # <<>>
             THEN [err |-> FALSE, val |-> -1]
        ELSE IF version1.Prerelease # <<>> /\ version2.Prerelease = <<>>
             THEN [err |-> FALSE, val |-> 1]
        ELSE [err |-> FALSE, val |-> StrCompare(version1.Prerelease, version2.Prerelease)]

\* semver.Compare; the result is [err, val]
Compare(v1, v2) ==
    LET version1 == Parse(v1)
        version2 == Parse(v2)
    IN  IF ~version1.ok \/ ~version2.ok THEN [err |-> TRUE, val |-> 0]
        ELSE IF version1.Major # version2.Major
             THEN [err |-> FALSE, val |-> version1.Major - version2.Major]
        ELSE IF version1.Minor # version2.Minor
             THEN [err |-> FALSE, val |-> version1.Minor - version2.Minor]
        ELSE IF version1.Patch # version2.Patch
             THEN [err |-> FALSE, val |-> version1.Patch - version2.Patch]
        ELSE IF version1.Prerelease = <<>> /\ version2.Prerelease # <<>>
             THEN [err |-> FALSE, val |-> 1]
        ELSE IF version1.Prerelease # <<>> /\ version2.Prerelease = <<>>
             THEN [err |-> FALSE, val |-> -1]
        ELSE [err |-> FALSE, val |-> StrCompare(version1.Prerelease, version2.Prerelease)]

\* ------------------------------------------------------------------------
\* internal/models
\* ------------------------------------------------------------------------

\* (mutant) off by one: a single segment is accepted
ParseAppID_OneSegment(appID) ==
    LET parts == Split(appID, "-")
    IN  IF Len(parts) < 1
        THEN [err |-> TRUE, projectID |-> <<>>, appName |-> <<>>]
        ELSE [err |-> FALSE, projectID |-> parts[1],
              appName |-> Join(Tail(parts), <<"-">>)]

\* models.ParseAppID; the result is [err, projectID, appName]
ParseAppID(appID) ==
    LET parts == Split(appID, "-")
    IN  IF Len(parts) < 2
        THEN [err |-> TRUE, projectID |-> <<>>, appName |-> <<>>]
        ELSE [err |-> FALSE, projectID |-> parts[1],
              appName |-> Join(Tail(parts), <<"-">>)]

\* (mutant) the separator is an underscore
FormatAppID_Underscore(projectID, appName) == projectID \o <<"_">> \o appName

FormatAppID(projectID, appName) == projectID \o <<"-">> \o appName

\* ------------------------------------------------------------------------
\* Values of the model
\* ------------------------------------------------------------------------

\* the identifiers requests carry: one with a dashed name, one without a dash
AppIDs == { <<"7", "-", "a", "-", "b">>, <<"x">> }

\* models.AppVersion; nil is the nil pointer.  LastUpdated and RepoName take
\* no part in any decision and are left out.
NilVersion == [nil |-> TRUE, Current |-> <<>>, ProjectID |-> <<>>, AppName |-> <<>>]

AppVersion(current, projectID, appName) ==
    [nil |-> FALSE, Current |-> current, ProjectID |-> projectID, AppName |-> appName]

\* contents the durable store's versions.json may have when the service starts
InitialDurable ==
    { [a \in AppIDs |-> NilVersion],
      [a \in AppIDs |-> IF ParseAppID(a).err THEN NilVersion
                        ELSE AppVersion(<<"1", ".", "2", ".", "3">>,
                                        ParseAppID(a).projectID, ParseAppID(a).appName)] }

\* the increment types of the requests
IncrementTypes == {"patch", "minor"}

\* the sha of a development build request
Shas == { <<"a", "b", "c", "1", "2", "3", "4", "5", "6">> }

\* ------------------------------------------------------------------------
\* Errors: a message is a sequence of words
\* ------------------------------------------------------------------------

NoError == <<>>

\* causes reported by the file system, the network or the remote
Causes == { <<"i/o", "timeout">>, <<"permission", "denied">>, <<"unexpected", "EOF">> }

\* GitStorage.readVersionsFile
ErrReadVersionsFile(cause) ==
    <<"failed", "to", "read", "versions", "file", ":">> \o cause

\* GitStorage.writeVersionsFile
ErrWriteVersionsFile(cause) ==
    <<"failed", "to", "write", "versions", "file", ":">> \o cause

\* GitStorage.push wrapped by GitStorage.SetVersion
ErrPush(cause) ==
    <<"push", "failed", ":", "failed", "to", "push", ":">> \o cause

\* containsAny: is one of the phrases a contiguous part of str
containsAny(str, substrings) ==
    \E substr \in substrings :
        /\ Len(str) >= Len(substr)
        /\ \E i \in 0..(Len(str) - Len(substr)) :
               SubSeq(str, i + 1, i + Len(substr)) = substr

NonRetryablePhrases ==
    { <<"authentication", "failed">>, <<"permission", "denied">>,
      <<"access", "denied">>, <<"unauthorized">>, <<"forbidden">>,
      <<"invalid", "credentials">> }

RetryablePhrases ==
    { <<"timeout">>, <<"connection">>, <<"network">>, <<"temporary">>,
      <<"unavailable">>, <<"refused">>, <<"reset">>, <<"push", "failed">> }

isRetryableError(err) ==
    IF containsAny(err, NonRetryablePhrases) THEN FALSE
    ELSE containsAny(err, RetryablePhrases) \/ TRUE

isPushFailure(err) ==
    containsAny(err, { <<"push", "failed">>, <<"failed", "to", "push">> })

\* ------------------------------------------------------------------------
\* Tag Discovery (clients.GitLabClient)
\* ------------------------------------------------------------------------

\* what the GitLab API may answer to a tag listing
TagResponses ==
    { [kind |-> "transport", tags |-> <<>>],
      [kind |-> "404", tags |-> <<>>],
      [kind |-> "500", tags |-> <<>>],
      [kind |-> "200", tags |-> <<>>],
      [kind |-> "200", tags |-> << <<"r", "c">> >>],
      [kind |-> "200", tags |-> << <<"v", "2", ".", "0", ".", "0">>,
                                   <<"2", ".", "1", ".", "0">>,
                                   <<"2", ".", "1", ".", "0", "-", "r", "c">> >>] }

\* the 'v' prefix handling of findLatestSemanticVersion
StripV(tagName) ==
    IF tagName # <<>> /\ Head(tagName) = "v" THEN Tail(tagName) ELSE tagName

\* (mutant) the sort is ascending
TagBefore_Ascending(vi, vj) ==
    IF vi.Major # vj.Major THEN vi.Major < vj.Major
    ELSE IF vi.Minor # vj.Minor THEN vi.Minor < vj.Minor
    ELSE IF vi.Patch # vj.Patch THEN vi.Patch < vj.Patch
    ELSE IF vi.Prerelease # <<>> /\ vj.Prerelease = <<>> THEN TRUE
    ELSE IF vi.Prerelease = <<>> /\ vj.Prerelease # <<>> THEN FALSE
    ELSE StrCompare(vi.Prerelease, vj.Prerelease) < 0

\* the comparator handed to sort.Slice: vi sorts before vj
TagBefore(vi, vj) ==
    IF vi.Major # vj.Major THEN vi.Major > vj.Major
    ELSE IF vi.Minor # vj.Minor THEN vi.Minor > vj.Minor
    ELSE IF vi.Patch # vj.Patch THEN vi.Patch > vj.Patch
    ELSE IF vi.Prerelease # <<>> /\ vj.Prerelease = <<>> THEN FALSE
    ELSE IF vi.Prerelease = <<>> /\ vj.Prerelease # <<>> THEN TRUE
    ELSE StrCompare(vi.Prerelease, vj.Prerelease) > 0

\* the tags a descending sort may leave in first place, without the prefix
findLatestSemanticVersion(tags) ==
    LET valid == { i \in 1..Len(tags) : Parse(StripV(tags[i])).ok }
        first == { i \in valid :
                     \A j \in valid : ~TagBefore(Parse(StripV(tags[j])),
                                                 Parse(StripV(tags[i]))) }
    IN  IF valid = {} THEN { <<>> } ELSE { StripV(tags[i]) : i \in first }

\* GitLabClient.GetLatestTag: the set of results [tag, err] it may return
GetLatestTag(accessToken, projectID, resp) ==
    IF ~accessToken THEN { [tag |-> <<>>, err |-> FALSE] }
    ELSE IF resp.kind = "transport" THEN { [tag |-> <<>>, err |-> TRUE] }
    ELSE IF resp.kind = "404" THEN { [tag |-> <<>>, err |-> FALSE] }
    ELSE IF resp.kind # "200" THEN { [tag |-> <<>>, err |-> TRUE] }
    ELSE IF Len(resp.tags) = 0 THEN { [tag |-> <<>>, err |-> FALSE] }
    ELSE { [tag |-> t, err |-> FALSE] : t \in findLatestSemanticVersion(resp.tags) }

\* s.gitLabClient: nil, a client without an access token, a client with one
GitLabClients == {"nil", "no token", "token"}

\* GetVersion, durable miss: the tag lookup, skipped when s.gitLabClient is nil
TagDiscovery(client, projectID, resp) ==
    IF client = "nil" THEN { [tag |-> <<>>, err |-> FALSE] }
    ELSE GetLatestTag(client = "token", projectID, resp)

\* ------------------------------------------------------------------------
\* State
\* ------------------------------------------------------------------------

VARIABLES
    phase,        \* "new" before Initialize has run, "serving" after
    bgStarted,    \* the metrics task and the push-retry task are running
    redis,        \* Redis: identifier -> record, NilVersion when absent
    gitFile,      \* versions.json of the Git working copy: identifier -> record
    unpushed,     \* the working copy has commits the remote does not have
    mu,           \* s.mu: 0 when free, else the request task holding it
    pushNeeded,   \* s.pushNeeded
    gitHealth,    \* s.gitHealth (recentFailures)
    gitMetrics,   \* s.gitMetrics (counters)
    call,         \* per request task: its call frame
    tasks,        \* the goroutines running saveVersionToGitWithRetry, in start order
    pushRetry,    \* position of periodicPushRetry in its loop body
    budget,       \* the bounds of this behaviour: callers, calls, faults
    ncalls,       \* number of calls started so far
    faults,       \* number of backend failures injected so far
    hist,         \* history: what the calls did, per identifier
    wlog,         \* history: the attempts of the background writes, kept when
                  \* budget.log is set
    hs,           \* the health state with its times, the clock (in minutes)
                  \* and the last answer of Health, for the health verdict
    fn,           \* the last call of a function of pkg/semver, internal/models,
                  \* the tag client or the health handler: [op, in, out]
    lk,           \* per task of the lock order: how many of its lock
                  \* operations it has done
    lastPush,     \* history: what the last PushPendingCommits saw and did,
                  \* kept when budget.log is set
    initCall      \* history: what Initialize met and returned, kept when
                  \* budget.log is set

vars == << phase, bgStarted, redis, gitFile, unpushed, mu, pushNeeded,
           gitHealth, gitMetrics, call, tasks, pushRetry, budget, ncalls, faults, hist,
           wlog, hs, fn, lk, lastPush, initCall >>

\* the state of the service: every variable but fn and lk
serviceVars == << phase, bgStarted, redis, gitFile, unpushed, mu, pushNeeded,
                  gitHealth, gitMetrics, call, tasks, pushRetry, budget, ncalls,
                  faults, hist, wlog, hs, lastPush, initCall >>

\* Initialize has not run yet
NoInit == [called |-> FALSE, listErr |-> FALSE, cacheErr |-> FALSE, err |-> FALSE]

\* no PushPendingCommits has run yet
NoPush == [called |-> FALSE, differs |-> FALSE, listed |-> FALSE, pushed |-> FALSE]

\* the tasks that take locks: two IncrementVersion calls, a GetVersion call,
\* a background write, periodicPushRetry, a Health call, the metrics logger
LockTasks == {"inc1", "inc2", "get", "write", "retry", "health", "metrics"}

\* no function was called yet
NoCall == [op |-> "", in |-> <<>>, out |-> <<>>]

Callers == 1..NCallers

\* saveVersionToGitWithRetry: const maxRetries
maxRetries == 3

NoResult == [err |-> "", rec |-> NilVersion, ver |-> <<>>]

IdleCall ==
    [pc |-> "idle", op |-> "", appID |-> <<>>, incType |-> "", sha |-> <<>>,
     version |-> NilVersion, fx |-> {}, tagQ |-> {}, tagHit |-> <<>>,
     result |-> NoResult]

\* the zero time.Time
ZeroTime == -1

\* NewVersionService at time now: gitHealthStatus{lastSuccess: time.Now()}
NewGitHealth(now) ==
    [recentFailures |-> 0, lastSuccess |-> now, lastFailure |-> ZeroTime]

\* Health has not been asked since the health state or the clock changed
NoCheck == [asked |-> FALSE, gitErr |-> FALSE,
            verdict |-> [status |-> "", reason |-> "", count |-> 0, last |-> ZeroTime]]

NoHist == [incs |-> <<>>, saved |-> NilVersion, others |-> FALSE]

InitService ==
    /\ phase = "new"
    /\ bgStarted = FALSE
    /\ redis = [a \in AppIDs |-> NilVersion]
    /\ unpushed = FALSE
    /\ mu = 0
    /\ pushNeeded = FALSE
    /\ gitHealth = [recentFailures |-> 0]
    /\ gitMetrics = [operationsTotal |-> 0, operationsSucceeded |-> 0,
                     operationsFailed |-> 0, retriesTotal |-> 0]
    /\ call = [c \in Callers |-> IdleCall]
    /\ tasks = <<>>
    /\ pushRetry = "idle"
    /\ ncalls = 0
    /\ faults = 0
    /\ hist = [a \in AppIDs |-> NoHist]
    /\ wlog = {}
    /\ hs = [now |-> 0, health |-> NewGitHealth(0), recorded |-> FALSE,
             check |-> NoCheck]
    /\ fn = NoCall
    /\ lk = [p \in LockTasks |-> 0]
    /\ lastPush = NoPush
    /\ initCall = NoInit

\* the service as constructed, over a durable store with well-formed records
InitState ==
    /\ InitService
    /\ gitFile \in InitialDurable

Budgets ==
    { [callers |-> 1, calls |-> 1, faults |-> MaxFaults, log |-> FALSE],
      [callers |-> 1, calls |-> MaxCalls, faults |-> MaxFaults - 1, log |-> FALSE],
      [callers |-> NCallers, calls |-> MaxCalls, faults |-> MaxFaults - 2, log |-> FALSE] }

Init ==
    /\ InitState
    /\ budget \in Budgets

\* a backend may fail while the failure budget lasts
MayFail == faults < budget.faults

\* ------------------------------------------------------------------------
\* Initialize
\* ------------------------------------------------------------------------

\* RedisStorage.RebuildCache: one transaction setting every given record
RebuildCache(versions) ==
    [a \in AppIDs |-> IF versions[a].nil THEN redis[a] ELSE versions[a]]

\* (mutant) a failure of the cache bulk load is fatal too
InitializeOutcome_CacheFatal(listErr, cacheErr) ==
    [err |-> listErr \/ cacheErr, loaded |-> ~listErr /\ ~cacheErr,
     started |-> ~listErr /\ ~cacheErr]

\* what VersionService.Initialize does when git.ListVersions fails (listErr)
\* or redis.RebuildCache fails (cacheErr): the error it returns, whether the
\* records reach the cache, whether the two background tasks are started
InitializeOutcome(listErr, cacheErr) ==
    [err |-> listErr, loaded |-> ~listErr /\ ~cacheErr, started |-> ~listErr]

\* VersionService.Initialize, followed by main starting to serve
Initialize ==
    /\ phase = "new"
    /\ phase' = "serving"
    /\ \E listErr, cacheErr \in BOOLEAN :
         LET o == InitializeOutcome(listErr, cacheErr) IN
         \* RebuildCache is not called when git.ListVersions failed
         /\ listErr => ~cacheErr
         /\ bgStarted' = o.started
         /\ redis' = IF o.loaded THEN RebuildCache(gitFile) ELSE redis
         /\ initCall' = IF budget.log
                         THEN [called |-> TRUE, listErr |-> listErr,
                               cacheErr |-> cacheErr, err |-> o.err]
                         ELSE initCall
    /\ UNCHANGED << lastPush, lk, fn, budget, hs, wlog, gitFile, unpushed, mu, pushNeeded, gitHealth,
                    gitMetrics, call, tasks, pushRetry, ncalls, faults, hist >>

\* a Redis entry reaches its TTL (defaultTTL) and disappears
CacheExpire(a) ==
    /\ phase = "serving"
    /\ ~redis[a].nil
    /\ MayFail
    /\ faults' = faults + 1
    /\ redis' = [redis EXCEPT ![a] = NilVersion]
    /\ UNCHANGED << initCall, lastPush, lk, fn, budget, hs, wlog, phase, bgStarted, gitFile, unpushed, mu, pushNeeded,
                    gitHealth, gitMetrics, call, tasks, pushRetry, ncalls, hist >>

\* ------------------------------------------------------------------------
\* Request tasks: GetVersion, IncrementVersion, GetDevVersion
\* ------------------------------------------------------------------------

\* request task c takes the next call: the tasks are interchangeable, so
\* the lowest-numbered free one takes it
Free(c) ==
    /\ c <= budget.callers
    /\ call[c].pc \in {"idle", "done"}
    /\ \A d \in Callers : d < c => call[d].pc \notin {"idle", "done"}

\* (mutant) Lock does not wait for the holder
muFree_NoLock == TRUE

\* sync.RWMutex: Lock and RLock block while another task holds the lock
muFree == mu = 0

\* the frame of a call that returns err to its caller
Fail(f, err) ==
    [f EXCEPT !.pc = "done", !.result = [err |-> err, rec |-> NilVersion, ver |-> <<>>]]

\* the deferred s.mu.Unlock() of IncrementVersion when the call returns
muAfterReturn(f) == IF f.op = "inc" THEN 0 ELSE mu

\* (mutant) the parse error is dropped
calculateNextVersion_Unchecked(current, incrementType) ==
    [err |-> FALSE, next |-> String(IncrementPatch(Parse(current)))]

\* VersionService.calculateNextVersion; the result is [err, next]
calculateNextVersion(current, incrementType) ==
    LET v == Parse(current)
    IN  IF ~v.ok THEN [err |-> TRUE, next |-> <<>>]
        ELSE [err |-> FALSE,
              next |-> String(CASE incrementType = "major" -> IncrementMajor(v)
                                [] incrementType = "minor" -> IncrementMinor(v)
                                [] incrementType = "patch" -> IncrementPatch(v)
                                [] OTHER -> IncrementPatch(v))]

\* what the caller of GetVersion does with the record v it returned
AfterGetVersion(f, v) ==
    CASE f.op = "get" ->
           [f EXCEPT !.pc = "done", !.version = v,
                     !.result = [err |-> "ok", rec |-> v, ver |-> <<>>]]
      [] f.op = "dev" ->
           IF ~Parse(v.Current).ok THEN Fail(f, "failed to parse version")
           ELSE [f EXCEPT !.pc = "done", !.version = v,
                          !.result = [err |-> "ok", rec |-> NilVersion,
                                      ver |-> String(WithDevSuffix(Parse(v.Current), f.sha))]]
      [] OTHER -> [f EXCEPT !.pc = "isave", !.version = v]

\* (mutant) the Redis read error is returned to the caller
AfterRedisError_Fatal(f) == Fail(f, "failed to get version from Redis")

\* GetVersion when redis.GetVersion returned an error: logged, then the
\* nil version sends it on to Git
AfterRedisError(f) == [f EXCEPT !.pc = "ggit"]

\* (mutant) the Git read error is only logged and the record is created
AfterGitError_Ignored(f) ==
    [f EXCEPT !.pc = "gsave",
              !.version = AppVersion(<<"1", ".", "0", ".", "0">>,
                                     ParseAppID(f.appID).projectID,
                                     ParseAppID(f.appID).appName)]

\* GetVersion when git.GetVersion returned an error
AfterGitError(f) == Fail(f, "failed to get version from Git")

\* (mutant) another default version
InitialVersion_Default010(tagResult) ==
    IF ~tagResult.err /\ tagResult.tag # <<>> THEN tagResult.tag
    ELSE <<"0", ".", "1", ".", "0">>

\* (mutant) the tag found is not used
InitialVersion_NoSeed(tagResult) == <<"1", ".", "0", ".", "0">>

\* GetVersion, durable miss: the current of the new record
InitialVersion(tagResult) ==
    IF ~tagResult.err /\ tagResult.tag # <<>> THEN tagResult.tag
    ELSE <<"1", ".", "0", ".", "0">>

\* the goroutine saveVersion starts
NewTask(appID, version) ==
    [appID |-> appID, version |-> version, attempt |-> 0, pc |-> "try"]

\* (mutant) the record fetched from Git goes through saveVersion
TasksAfterCacheFill_Saved(appID, version) == Append(tasks, NewTask(appID, version))

\* the goroutines after GetVersion cached a record it fetched from Git
TasksAfterCacheFill(appID, version) == tasks

\* (mutant) the goroutine is started before the Redis error is looked at
TasksAfterSaveError_Started(appID, version) == Append(tasks, NewTask(appID, version))

\* the goroutines after saveVersion failed to write Redis
TasksAfterSaveError(appID, version) == tasks

StartGet(c, a) ==
    /\ phase = "serving"
    /\ Free(c)
    /\ ncalls < budget.calls
    /\ ncalls' = ncalls + 1
    /\ call' = [call EXCEPT ![c] = [IdleCall EXCEPT !.pc = "gread", !.op = "get",
                                                    !.appID = a]]
    /\ hist' = [hist EXCEPT ![a].others = TRUE]
    /\ UNCHANGED << initCall, lastPush, lk, fn, budget, hs, wlog, phase, bgStarted, redis, gitFile, unpushed, mu,
                    pushNeeded, gitHealth, gitMetrics, tasks, pushRetry, faults >>

StartDev(c, a, sha) ==
    /\ phase = "serving"
    /\ Free(c)
    /\ ncalls < budget.calls
    /\ ncalls' = ncalls + 1
    /\ call' = [call EXCEPT ![c] = [IdleCall EXCEPT !.pc = "gread", !.op = "dev",
                                                    !.appID = a, !.sha = sha]]
    /\ hist' = [hist EXCEPT ![a].others = TRUE]
    /\ UNCHANGED << initCall, lastPush, lk, fn, budget, hs, wlog, phase, bgStarted, redis, gitFile, unpushed, mu,
                    pushNeeded, gitHealth, gitMetrics, tasks, pushRetry, faults >>

StartIncrement(c, a, t) ==
    /\ phase = "serving"
    /\ Free(c)
    /\ ncalls < budget.calls
    /\ ncalls' = ncalls + 1
    /\ call' = [call EXCEPT ![c] = [IdleCall EXCEPT !.pc = "lock", !.op = "inc",
                                                    !.appID = a, !.incType = t]]
    /\ UNCHANGED << initCall, lastPush, lk, fn, budget, hs, wlog, phase, bgStarted, redis, gitFile, unpushed, mu,
                    pushNeeded, gitHealth, gitMetrics, tasks, pushRetry, faults, hist >>

\* IncrementVersion: s.mu.Lock(), then ParseAppID
IncLock(c) ==
    /\ call[c].pc = "lock"
    /\ muFree
    /\ IF ParseAppID(call[c].appID).err
       THEN /\ call' = [call EXCEPT ![c] = Fail(@, "invalid app ID")]
            /\ mu' = 0
       ELSE /\ call' = [call EXCEPT ![c].pc = "gread"]
            /\ mu' = c
    /\ UNCHANGED << initCall, lastPush, lk, fn, budget, hs, wlog, phase, bgStarted, redis, gitFile, unpushed,
                    pushNeeded, gitHealth, gitMetrics, tasks, pushRetry, ncalls,
                    faults, hist >>

\* GetVersion: ParseAppID, then redis.GetVersion
GetRedis(c) ==
    LET f == call[c] IN
    /\ f.pc = "gread"
    /\ IF ParseAppID(f.appID).err
       THEN /\ call' = [call EXCEPT ![c] = Fail(f, "invalid app ID")]
            /\ UNCHANGED faults
       ELSE LET g == [f EXCEPT !.fx = @ \cup {"redis.Get"}] IN
            \/ /\ UNCHANGED faults
               /\ call' = [call EXCEPT ![c] =
                              IF redis[f.appID].nil
                              THEN [g EXCEPT !.pc = "ggit", !.fx = @ \cup {"redis miss"}]
                              ELSE AfterGetVersion([g EXCEPT !.fx = @ \cup {"redis hit"}],
                                                   redis[f.appID])]
            \/ /\ MayFail
               /\ faults' = faults + 1
               /\ call' = [call EXCEPT ![c] =
                              AfterRedisError([g EXCEPT !.fx = @ \cup {"redis.Get failed"}])]
    /\ mu' = IF call'[c].pc = "done" THEN muAfterReturn(f) ELSE mu
    /\ UNCHANGED << initCall, lastPush, lk, fn, budget, hs, wlog, phase, bgStarted, redis, gitFile, unpushed,
                    pushNeeded, gitHealth, gitMetrics, tasks, pushRetry, ncalls, hist >>

\* GetVersion: git.GetVersion and, on a durable miss, Tag Discovery and the
\* construction of the new record
GetGit(c) ==
    LET f == call[c]
        p == ParseAppID(f.appID)
        g == [f EXCEPT !.fx = @ \cup {"git.Get"}]
    IN
    /\ f.pc = "ggit"
    /\ \/ /\ MayFail
          /\ faults' = faults + 1
          /\ call' = [call EXCEPT ![c] =
                         AfterGitError([g EXCEPT !.fx = @ \cup {"git.Get failed"}])]
       \/ /\ UNCHANGED faults
          /\ ~gitFile[f.appID].nil
          /\ call' = [call EXCEPT ![c] =
                         [g EXCEPT !.pc = "gcache", !.fx = @ \cup {"git hit"},
                                   !.version = gitFile[f.appID]]]
       \/ /\ UNCHANGED faults
          /\ gitFile[f.appID].nil
          /\ \E client \in GitLabClients, resp \in TagResponses :
               \E r \in TagDiscovery(client, p.projectID, resp) :
                 call' = [call EXCEPT ![c] =
                     [g EXCEPT !.pc = "gsave", !.fx = @ \cup {"git miss"},
                               !.tagQ = IF client = "nil" THEN {} ELSE {p.projectID},
                               !.tagHit = IF r.err THEN <<"error">> ELSE r.tag,
                               !.version = AppVersion(InitialVersion(r),
                                                      p.projectID, p.appName)]]
    /\ mu' = IF call'[c].pc = "done" THEN muAfterReturn(f) ELSE mu
    /\ UNCHANGED << initCall, lastPush, lk, fn, budget, hs, wlog, phase, bgStarted, redis, gitFile, unpushed,
                    pushNeeded, gitHealth, gitMetrics, tasks, pushRetry, ncalls, hist >>

\* GetVersion, durable hit: redis.SetVersion, its failure only logged
GetCacheFill(c) ==
    LET f == call[c] IN
    /\ f.pc = "gcache"
    /\ \/ /\ UNCHANGED faults
          /\ redis' = [redis EXCEPT ![f.appID] = f.version]
          /\ call' = [call EXCEPT ![c] =
                         AfterGetVersion([f EXCEPT !.fx = @ \cup {"fill redis.Set"}],
                                         f.version)]
       \/ /\ MayFail
          /\ faults' = faults + 1
          /\ UNCHANGED redis
          /\ call' = [call EXCEPT ![c] =
                         AfterGetVersion([f EXCEPT !.fx = @ \cup {"fill redis.Set failed"}],
                                         f.version)]
    /\ tasks' = TasksAfterCacheFill(f.appID, f.version)
    /\ mu' = IF call'[c].pc = "done" THEN muAfterReturn(f) ELSE mu
    /\ UNCHANGED << initCall, lastPush, lk, fn, budget, hs, wlog, phase, bgStarted, gitFile, unpushed, pushNeeded,
                    gitHealth, gitMetrics, pushRetry, ncalls, hist >>

\* GetVersion, durable miss: saveVersion of the new record
GetSave(c) ==
    LET f == call[c] IN
    /\ f.pc = "gsave"
    /\ \/ /\ UNCHANGED faults
          /\ redis' = [redis EXCEPT ![f.appID] = f.version]
          /\ tasks' = Append(tasks, NewTask(f.appID, f.version))
          /\ hist' = [hist EXCEPT ![f.appID].saved = f.version]
          /\ call' = [call EXCEPT ![c] =
                         AfterGetVersion([f EXCEPT !.fx = @ \cup {"redis.Set", "go git"}],
                                         f.version)]
       \/ /\ MayFail
          /\ faults' = faults + 1
          /\ tasks' = TasksAfterSaveError(f.appID, f.version)
          /\ UNCHANGED << redis, hist >>
          /\ call' = [call EXCEPT ![c] =
                         Fail([f EXCEPT !.fx = @ \cup {"redis.Set failed"}],
                              "failed to save version to Redis")]
    /\ mu' = IF call'[c].pc = "done" THEN muAfterReturn(f) ELSE mu
    /\ UNCHANGED << initCall, lastPush, lk, fn, budget, hs, wlog, phase, bgStarted, gitFile, unpushed, pushNeeded,
                    gitHealth, gitMetrics, pushRetry, ncalls >>

\* IncrementVersion after GetVersion: calculateNextVersion, saveVersion,
\* return and the deferred Unlock
IncSave(c) ==
    LET f == call[c]
        p == ParseAppID(f.appID)
        n == calculateNextVersion(f.version.Current, f.incType)
        updatedVersion == AppVersion(n.next, p.projectID, p.appName)
    IN
    /\ f.pc = "isave"
    /\ mu' = 0
    /\ IF n.err
       THEN /\ call' = [call EXCEPT ![c] = Fail(f, "invalid semantic version")]
            /\ UNCHANGED << redis, tasks, hist, faults >>
       ELSE \/ /\ UNCHANGED faults
               /\ redis' = [redis EXCEPT ![f.appID] = updatedVersion]
               /\ tasks' = Append(tasks, NewTask(f.appID, updatedVersion))
               /\ hist' = [hist EXCEPT
                             ![f.appID].saved = updatedVersion,
                             ![f.appID].incs =
                                 Append(@, [base |-> f.version.Current, type |-> f.incType,
                                            version |-> n.next])]
               /\ call' = [call EXCEPT ![c] =
                              [f EXCEPT !.pc = "done",
                                        !.fx = @ \cup {"inc redis.Set", "inc go git"},
                                        !.result = [err |-> "ok", rec |-> NilVersion,
                                                    ver |-> n.next]]]
            \/ /\ MayFail
               /\ faults' = faults + 1
               /\ tasks' = TasksAfterSaveError(f.appID, updatedVersion)
               /\ UNCHANGED << redis, hist >>
               /\ call' = [call EXCEPT ![c] =
                              Fail([f EXCEPT !.fx = @ \cup {"inc redis.Set failed"}],
                                   "failed to save version to Redis")]
    /\ UNCHANGED << initCall, lastPush, lk, fn, budget, hs, wlog, phase, bgStarted, gitFile, unpushed, pushNeeded,
                    gitHealth, gitMetrics, pushRetry, ncalls >>

\* ------------------------------------------------------------------------
\* Background durable writes: saveVersionToGitWithRetry
\* ------------------------------------------------------------------------

\* (mutant) a success is counted like a failure
updateGitHealth_AllFailures(h, success) == [h EXCEPT !.recentFailures = @ + 1]

\* (mutant) a failure is not counted
updateGitHealth_NoCount(h, success) ==
    IF success THEN [h EXCEPT !.recentFailures = 0] ELSE h

\* (mutant) a failure is counted twice
updateGitHealth_Twice(h, success) ==
    IF success THEN [h EXCEPT !.recentFailures = 0]
    ELSE [h EXCEPT !.recentFailures = @ + 2]

\* (mutant) a success leaves the failure count as it is
updateGitHealth_NoReset(h, success) ==
    IF success THEN h ELSE [h EXCEPT !.recentFailures = @ + 1]

\* VersionService.updateGitHealth
updateGitHealth(h, success) ==
    IF success THEN [h EXCEPT !.recentFailures = 0]
    ELSE [h EXCEPT !.recentFailures = @ + 1]

\* (mutant) a completion without latency is not counted
updateGitMetrics_ZeroLatencyDropped(m, isStart, retries, latencyMs) ==
    IF isStart THEN [m EXCEPT !.operationsTotal = @ + 1]
    ELSE IF latencyMs > 0
         THEN IF retries = 0 \/ latencyMs < 30000
              THEN [m EXCEPT !.operationsSucceeded = @ + 1]
              ELSE [m EXCEPT !.operationsFailed = @ + 1]
         ELSE m

\* (mutant) a completion is counted as a success and as a failure
updateGitMetrics_CompletionTwice(m, isStart, retries, latencyMs) ==
    IF isStart THEN [m EXCEPT !.operationsTotal = @ + 1]
    ELSE [m EXCEPT !.operationsSucceeded = @ + 1, !.operationsFailed = @ + 1]

\* VersionService.updateGitMetrics
updateGitMetrics(m, isStart, retries, latencyMs) ==
    IF isStart THEN [m EXCEPT !.operationsTotal = @ + 1]
    ELSE IF latencyMs > 0
         THEN IF retries = 0 \/ latencyMs < 30000
              THEN [m EXCEPT !.operationsSucceeded = @ + 1]
              ELSE [m EXCEPT !.operationsFailed = @ + 1]
         ELSE [m EXCEPT !.operationsFailed = @ + 1]

\* VersionService.trackRetry
trackRetry(m) == [m EXCEPT !.retriesTotal = @ + 1]

\* the backoff sleeps before attempt number `attempt` (0-based), in ms:
\* baseDelay * (1 << k) after the failed attempt k, for k < maxRetries-1
RECURSIVE Pow2(_)
Pow2(k) == IF k = 0 THEN 1 ELSE 2 * Pow2(k - 1)

\* updateGitHealth with the times it stamps: lastSuccess or lastFailure
updateGitHealthAt(h, success, now) ==
    LET g == updateGitHealth(h, success)
    IN  IF success THEN [g EXCEPT !.lastSuccess = now]
        ELSE [g EXCEPT !.lastFailure = now]

\* (mutant) the delay does not double
Backoff_Constant(attempt) == IF attempt < maxRetries - 1 THEN 1000 ELSE 0

\* the sleep that follows the failed attempt numbered `attempt`, in ms:
\* baseDelay * (1 << attempt), and none after the last attempt
Backoff(attempt) == IF attempt < maxRetries - 1 THEN 1000 * Pow2(attempt) ELSE 0

RECURSIVE SleptBefore(_)
SleptBefore(attempt) ==
    IF attempt = 0 THEN 0
    ELSE SleptBefore(attempt - 1) + Backoff(attempt - 1)

\* totalLatency.Milliseconds() when the write ends in or after the attempt
\* numbered `attempt`: no less than the time slept
Latencies(attempt) == { l \in {0, 40, 1500, 3500, 30000} : l >= SleptBefore(attempt) }

\* errors GitStorage.SetVersion may return
SetVersionErrors ==
    { ErrReadVersionsFile(x) : x \in Causes } \cup
    { ErrWriteVersionsFile(x) : x \in Causes } \cup
    { ErrPush(x) : x \in Causes }

\* the working copy after GitStorage.SetVersion returned err: the record is
\* written and committed before the push is tried
FileAfterSetVersion(appID, version, err) ==
    IF err = NoError \/ isPushFailure(err)
    THEN [gitFile EXCEPT ![appID] = version]
    ELSE gitFile

RemoveAt(s, i) == SubSeq(s, 1, i - 1) \o SubSeq(s, i + 1, Len(s))

\* the attempt failed: an outage that made an earlier attempt of the same
\* write fail may go on; a new one is taken from the failure budget
AttemptFails(t) ==
    IF t.attempt > 0 THEN UNCHANGED faults
    ELSE MayFail /\ faults' = faults + 1

\* (mutant) the caller is told of the failed durable write
CallsAfterWrite_Reported(t, err) ==
    [c \in Callers |->
        IF call[c].pc = "done" /\ call[c].appID = t.appID /\ err # NoError
        THEN Fail(call[c], "failed to save version to Git")
        ELSE call[c]]

\* the call frames after an attempt of the write t returned err: the
\* goroutine is not awaited and has no way to reach its caller
CallsAfterWrite(t, err) == call

\* the branch of the loop body an attempt that returned err takes
Classify(err) ==
    IF err = NoError THEN "success"
    ELSE IF isPushFailure(err) THEN "push-failure"
    ELSE IF ~isRetryableError(err) THEN "non-retryable"
    ELSE "retryable"

\* the history after the attempt t.attempt of the write t returned err and
\* was followed by a sleep of slept ms; of the text of err the history keeps
\* whether it holds one of the phrases isRetryableError takes for final
Logged(t, err, slept) ==
    IF budget.log
    THEN wlog \cup { [appID |-> t.appID, current |-> t.version.Current,
                      attempt |-> t.attempt, class |-> Classify(err),
                      denied |-> containsAny(err, NonRetryablePhrases),
                      slept |-> slept] }
    ELSE wlog

\* One pass of the loop body: git.SetVersion, the classification of its
\* error and what follows it up to the next point where the goroutine needs
\* the Git store or s.mu again (the backoff sleep; on success or on a
\* non-retryable error updateGitHealth, updateGitMetrics and return; after
\* the last attempt the two updates that follow the loop).  The first pass
\* is preceded by updateGitMetrics(true, 0, 0).
WriteAttempt(i) ==
    LET t == tasks[i]
        m0 == IF t.attempt = 0 THEN updateGitMetrics(gitMetrics, TRUE, 0, 0)
              ELSE gitMetrics
        m1 == IF t.attempt > 0 THEN trackRetry(m0) ELSE m0
    IN
    /\ t.pc = "try"
    /\ \E err \in {NoError} \cup SetVersionErrors :
         /\ gitFile' = FileAfterSetVersion(t.appID, t.version, err)
         /\ call' = CallsAfterWrite(t, err)
         /\ IF Classify(err) = "success"
            THEN /\ UNCHANGED faults
                 /\ unpushed' = FALSE
                 /\ gitHealth' = updateGitHealth(gitHealth, TRUE)
                 /\ \E lat \in Latencies(t.attempt) :
                      gitMetrics' = updateGitMetrics(m0, FALSE, t.attempt, lat)
                 /\ tasks' = RemoveAt(tasks, i)
                 /\ wlog' = Logged(t, err, 0)
            ELSE IF Classify(err) = "push-failure"
            THEN /\ AttemptFails(t)
                 /\ unpushed' = TRUE
                 /\ gitMetrics' = m1
                 /\ tasks' = [tasks EXCEPT ![i].pc = "pushfail"]
                 /\ wlog' = Logged(t, err, 0)
                 /\ UNCHANGED gitHealth
            ELSE IF Classify(err) = "non-retryable"
            THEN /\ AttemptFails(t)
                 /\ gitHealth' = updateGitHealth(gitHealth, FALSE)
                 /\ \E lat \in Latencies(t.attempt) :
                      gitMetrics' = updateGitMetrics(m1, FALSE, t.attempt, lat)
                 /\ tasks' = RemoveAt(tasks, i)
                 /\ wlog' = Logged(t, err, 0)
                 /\ UNCHANGED unpushed
            ELSE IF t.attempt + 1 < maxRetries
            THEN /\ AttemptFails(t)
                 /\ gitMetrics' = m1
                 /\ tasks' = [tasks EXCEPT ![i].attempt = @ + 1]
                 /\ wlog' = Logged(t, err, Backoff(t.attempt))
                 /\ UNCHANGED << unpushed, gitHealth >>
            ELSE /\ AttemptFails(t)
                 /\ gitHealth' = updateGitHealth(gitHealth, FALSE)
                 /\ \E lat \in Latencies(maxRetries - 1) :
                      gitMetrics' = updateGitMetrics(m1, FALSE, maxRetries - 1, lat)
                 /\ tasks' = [tasks EXCEPT ![i].attempt = @ + 1, ![i].pc = "exhmark"]
                 /\ wlog' = Logged(t, err, Backoff(t.attempt))
                 /\ UNCHANGED unpushed
    /\ UNCHANGED << initCall, lastPush, lk, fn, budget, hs, phase, bgStarted, redis, mu, pushNeeded,
                    pushRetry, ncalls, hist >>

\* after a push failure: s.markPushNeeded(), updateGitHealth(false),
\* updateGitMetrics, return
WriteMarkPush(i) ==
    LET t == tasks[i] IN
    /\ t.pc = "pushfail"
    /\ muFree
    /\ pushNeeded' = TRUE
    /\ gitHealth' = updateGitHealth(gitHealth, FALSE)
    /\ \E lat \in Latencies(t.attempt) :
         gitMetrics' = updateGitMetrics(gitMetrics, FALSE, t.attempt, lat)
    /\ tasks' = RemoveAt(tasks, i)
    /\ UNCHANGED << initCall, lastPush, lk, fn, budget, hs, wlog, phase, bgStarted, redis, gitFile, unpushed, mu,
                    call, pushRetry, ncalls, faults, hist >>

\* after the loop: s.markPushNeeded(), then return
WriteMarkExhausted(i) ==
    /\ tasks[i].pc = "exhmark"
    /\ muFree
    /\ pushNeeded' = TRUE
    /\ tasks' = RemoveAt(tasks, i)
    /\ UNCHANGED << initCall, lastPush, lk, fn, budget, hs, wlog, phase, bgStarted, redis, gitFile, unpushed, mu,
                    gitHealth, gitMetrics, call, pushRetry, ncalls, faults, hist >>

\* ------------------------------------------------------------------------
\* periodicPushRetry
\* ------------------------------------------------------------------------

\* a tick: read s.pushNeeded under the read lock
PushRetryCheck ==
    /\ bgStarted
    /\ pushRetry = "idle"
    /\ muFree
    /\ pushNeeded
    /\ pushRetry' = "push"
    /\ UNCHANGED << initCall, lastPush, lk, fn, budget, hs, wlog, phase, bgStarted, redis, gitFile, unpushed, mu,
                    pushNeeded, gitHealth, gitMetrics, call, tasks, ncalls, faults, hist >>

\* (mutant) a failure to list the remote refs counts as nothing to push
hasUnpushedCommits_ListFailureIsClean(listed, differs) == listed /\ differs

\* GitStorage.hasUnpushedCommits: the local head differs from the head of
\* the remote branch; when the remote refs cannot be listed, unpushed commits
\* are assumed
hasUnpushedCommits(listed, differs) == IF ~listed THEN TRUE ELSE differs

\* retryPendingPushes: GitStorage.PushPendingCommits, updateGitHealth(true).
\* The push of a working copy that is already up to date succeeds
\* (NoErrAlreadyUpToDate is not an error).
PushRetryPush ==
    /\ pushRetry = "push"
    /\ \E listed \in BOOLEAN :
         LET has == hasUnpushedCommits(listed, unpushed) IN
         /\ lastPush' = IF budget.log
                         THEN [called |-> TRUE, differs |-> unpushed,
                               listed |-> listed, pushed |-> has]
                         ELSE lastPush
         /\ \/ /\ UNCHANGED faults
               /\ unpushed' = FALSE
               /\ gitHealth' = updateGitHealth(gitHealth, TRUE)
               /\ pushRetry' = "clear"
            \/ /\ has
               /\ MayFail
               /\ faults' = faults + 1
               /\ UNCHANGED << unpushed, gitHealth >>
               /\ pushRetry' = "idle"
    /\ UNCHANGED << initCall, lk, fn, budget, hs, wlog, phase, bgStarted, redis, gitFile, mu, pushNeeded,
                    gitMetrics, call, tasks, ncalls, hist >>

\* s.pushNeeded = false under the lock
PushRetryClear ==
    /\ pushRetry = "clear"
    /\ muFree
    /\ pushNeeded' = FALSE
    /\ pushRetry' = "idle"
    /\ UNCHANGED << initCall, lastPush, lk, fn, budget, hs, wlog, phase, bgStarted, redis, gitFile, unpushed, mu,
                    gitHealth, gitMetrics, call, tasks, ncalls, faults, hist >>

\* ------------------------------------------------------------------------
\* Specification
\* ------------------------------------------------------------------------

Next ==
    \/ Initialize
    \/ \E a \in AppIDs : CacheExpire(a)
    \/ \E c \in Callers, a \in AppIDs : StartGet(c, a)
    \/ \E c \in Callers, a \in AppIDs, sha \in Shas : StartDev(c, a, sha)
    \/ \E c \in Callers, a \in AppIDs, t \in IncrementTypes : StartIncrement(c, a, t)
    \/ \E c \in Callers : IncLock(c)
    \/ \E c \in Callers : GetRedis(c)
    \/ \E c \in Callers : GetGit(c)
    \/ \E c \in Callers : GetCacheFill(c)
    \/ \E c \in Callers : GetSave(c)
    \/ \E c \in Callers : IncSave(c)
    \/ \E i \in 1..Len(tasks) : WriteAttempt(i)
    \/ \E i \in 1..Len(tasks) : WriteMarkPush(i)
    \/ \E i \in 1..Len(tasks) : WriteMarkExhausted(i)
    \/ PushRetryCheck
    \/ PushRetryPush
    \/ PushRetryClear

Spec == Init /\ [][Next]_vars

\* ------------------------------------------------------------------------
\* Health: the verdict on the Git store
\* ------------------------------------------------------------------------

\* Health: recentWindow := 5 * time.Minute
recentWindow == 5

\* now.Sub(t), in minutes; the difference to the zero time saturates
Since(now, t) == IF t = ZeroTime THEN 1000000 ELSE now - t

\* VersionService.Health, checks["git"]: gitErr is what s.git.Health returned
Health(gitErr, h, now) ==
    IF gitErr
    THEN [status |-> "unhealthy", reason |-> "error", count |-> 0, last |-> ZeroTime]
    ELSE IF h.recentFailures > 0 /\ Since(now, h.lastFailure) < recentWindow
    THEN IF h.recentFailures >= 3
         THEN [status |-> "degraded", reason |-> "recent failures, last failure",
               count |-> h.recentFailures, last |-> h.lastFailure]
         ELSE [status |-> "degraded", reason |-> "recent failures",
               count |-> h.recentFailures, last |-> ZeroTime]
    ELSE IF h.lastSuccess # ZeroTime /\ Since(now, h.lastSuccess) > recentWindow
    THEN [status |-> "degraded", reason |-> "no successful operations",
          count |-> 0, last |-> ZeroTime]
    ELSE [status |-> "healthy", reason |-> "", count |-> 0, last |-> ZeroTime]

\* a minute passes
Tick ==
    /\ hs.now < MaxTime
    /\ hs' = [hs EXCEPT !.now = @ + 1, !.check = NoCheck]
    /\ UNCHANGED << initCall, lastPush, lk, fn, budget, wlog, phase, bgStarted, redis, gitFile, unpushed, mu,
                    pushNeeded, gitHealth, gitMetrics, call, tasks, pushRetry,
                    ncalls, faults, hist >>

\* a durable operation ends and calls updateGitHealth(success)
RecordOutcome(success) ==
    /\ hs.health.recentFailures < MaxRecorded
    /\ hs' = [hs EXCEPT !.health = updateGitHealthAt(@, success, hs.now),
                        !.recorded = @ \/ success,
                        !.check = NoCheck]
    /\ UNCHANGED << initCall, lastPush, lk, fn, budget, wlog, phase, bgStarted, redis, gitFile, unpushed, mu,
                    pushNeeded, gitHealth, gitMetrics, call, tasks, pushRetry,
                    ncalls, faults, hist >>

\* a caller asks Health; s.git.Health answers with or without an error
HealthCheck(gitErr) ==
    /\ hs' = [hs EXCEPT !.check = [asked |-> TRUE, gitErr |-> gitErr,
                                   verdict |-> Health(gitErr, hs.health, hs.now)]]
    /\ UNCHANGED << initCall, lastPush, lk, fn, budget, wlog, phase, bgStarted, redis, gitFile, unpushed, mu,
                    pushNeeded, gitHealth, gitMetrics, call, tasks, pushRetry,
                    ncalls, faults, hist >>

NextHealth ==
    \/ Tick
    \/ \E success \in BOOLEAN : RecordOutcome(success)
    \/ \E gitErr \in BOOLEAN : HealthCheck(gitErr)

\* the health state, the clock and Health alone
InitHealth ==
    /\ InitState
    /\ budget = [callers |-> 0, calls |-> 0, faults |-> 0, log |-> FALSE]

SpecHealth == InitHealth /\ [][NextHealth]_vars

\* ------------------------------------------------------------------------
\* The functions of pkg/semver: a behaviour is one call, fn holds its
\* argument and its result
\* ------------------------------------------------------------------------

Nums == (0..MaxNum) \cup {9, 10}

\* prereleases: none, plain ones, one that holds a line feed
Prereleases == { <<>>, <<"r", "c">>, <<"a">>, <<"a", "\n", "b">> }

\* the values of semver.Version
SemVers ==
    { [ok |-> TRUE, Major |-> ma, Minor |-> mi, Patch |-> pa, Prerelease |-> pre] :
        ma \in Nums, mi \in Nums, pa \in Nums, pre \in Prereleases }

\* strings that are not versions
NotVersions ==
    { <<>>, <<"1", ".", "2">>, <<"a", ".", "b", ".", "c">>,
      <<"1", ".", "2", ".", "3", "-">>, <<"v", "1", ".", "0", ".", "0">>,
      <<"1", ".", "2", ".", "3", ".", "4">>, <<"1", ".", ".", "3">> }

\* the versions Compare is called with
CompareVersions ==
    { v \in SemVers : v.Major \in {0, 1, 10} /\ v.Minor \in {0, 9} /\ v.Patch \in {0, 1}
                      /\ v.Prerelease \in { <<>>, <<"r", "c">>, <<"a">> } }

\* the shas WithDevSuffix is called with: none, 6, 7, 8 and 9 characters
DevShas ==
    { <<>>, <<"a", "b", "c", "1", "2", "3">>, <<"a", "b", "c", "1", "2", "3", "4">>,
      <<"a", "b", "c", "1", "2", "3", "4", "5">>,
      <<"a", "b", "c", "1", "2", "3", "4", "5", "6">> }

\* the increment types calculateNextVersion is called with
NextTypes == {"major", "minor", "patch", "bogus"}

CallParse ==
    \E version \in { String(v) : v \in SemVers } \cup NotVersions :
        /\ fn.op = ""
        /\ fn' = [op |-> "Parse", in |-> version, out |-> Parse(version)]
        /\ UNCHANGED << serviceVars, lk >>

CallString ==
    \E v \in SemVers :
        /\ fn.op = ""
        /\ fn' = [op |-> "String", in |-> v, out |-> String(v)]
        /\ UNCHANGED << serviceVars, lk >>

CallIncrement ==
    \E v \in SemVers :
        /\ fn.op = ""
        /\ \/ fn' = [op |-> "IncrementPatch", in |-> v, out |-> IncrementPatch(v)]
           \/ fn' = [op |-> "IncrementMinor", in |-> v, out |-> IncrementMinor(v)]
           \/ fn' = [op |-> "IncrementMajor", in |-> v, out |-> IncrementMajor(v)]
        /\ UNCHANGED << serviceVars, lk >>

CallCalculateNextVersion ==
    \E current \in { String(v) : v \in SemVers } \cup NotVersions, type \in NextTypes :
        /\ fn.op = ""
        /\ fn' = [op |-> "calculateNextVersion", in |-> [current |-> current, type |-> type],
                  out |-> calculateNextVersion(current, type)]
        /\ UNCHANGED << serviceVars, lk >>

CallWithDevSuffix ==
    \E v \in SemVers, sha \in DevShas :
        /\ fn.op = ""
        /\ fn' = [op |-> "WithDevSuffix", in |-> [v |-> v, sha |-> sha],
                  out |-> WithDevSuffix(v, sha)]
        /\ UNCHANGED << serviceVars, lk >>

CallCompare ==
    \E v1, v2 \in { String(v) : v \in CompareVersions } \cup NotVersions :
        /\ fn.op = ""
        /\ fn' = [op |-> "Compare", in |-> [v1 |-> v1, v2 |-> v2],
                  out |-> Compare(v1, v2)]
        /\ UNCHANGED << serviceVars, lk >>

NextSemver ==
    \/ CallParse
    \/ CallString
    \/ CallIncrement
    \/ CallCalculateNextVersion
    \/ CallWithDevSuffix
    \/ CallCompare

SpecSemver == InitHealth /\ [][NextSemver]_vars

\* ------------------------------------------------------------------------
\* The functions of internal/models, of the tag client and of the health
\* handler: a behaviour is one call
\* ------------------------------------------------------------------------

\* the identifiers ParseAppID is called with: every string of digits,
\* letters and dashes up to MaxIdLen characters
IdChars == {"7", "a", "-"}

Identifiers == UNION { [1..n -> IdChars] : n \in 0..MaxIdLen }

CallParseAppID ==
    \E appID \in Identifiers :
        /\ fn.op = ""
        /\ fn' = [op |-> "ParseAppID", in |-> appID, out |-> ParseAppID(appID)]
        /\ UNCHANGED << serviceVars, lk >>

\* ------------------------------------------------------------------------
\* Handler.Health over the checks of VersionService.Health
\* ------------------------------------------------------------------------

\* strings.Contains
Contains(str, substr) == containsAny(str, {substr})

\* what redis.Health and git.Health may return: nil (no text) or an error
HealthErrors == { <<>>, <<"t", "i", "m", "e", "o", "u", "t">>, <<"e", "o", "f">> }

\* checks["redis"] of VersionService.Health
RedisCheckText(err) ==
    IF err # <<>> THEN <<"u", "n", "h", "e", "a", "l", "t", "h", "y", ":", " ">> \o err
    ELSE <<"h", "e", "a", "l", "t", "h", "y">>

\* checks["git"] of VersionService.Health: the text of the verdict v
GitCheckText(v, err) ==
    CASE v.status = "unhealthy" -> <<"u", "n", "h", "e", "a", "l", "t", "h", "y", ":", " ">> \o err
      [] v.status = "degraded" /\ v.reason = "recent failures, last failure" ->
             <<"d", "e", "g", "r", "a", "d", "e", "d", ":", " ">> \o Itoa(v.count)
             \o <<" ", "r", "e", "c", "e", "n", "t", " ", "f", "a", "i", "l", "u", "r", "e", "s", ",", " ", "l", "a", "s", "t", " ", "f", "a", "i", "l", "u", "r", "e", ":", " ">>
             \o <<"T">> \o Itoa(v.last) \o <<"Z">>
      [] v.status = "degraded" /\ v.reason = "recent failures" ->
             <<"d", "e", "g", "r", "a", "d", "e", "d", ":", " ">> \o Itoa(v.count)
             \o <<" ", "r", "e", "c", "e", "n", "t", " ", "f", "a", "i", "l", "u", "r", "e", "s">>
      [] v.status = "degraded" /\ v.reason = "no successful operations" ->
             <<"d", "e", "g", "r", "a", "d", "e", "d", ":", " ", "n", "o", " ", "s", "u", "c", "c", "e", "s", "s", "f", "u", "l", " ", "o", "p", "e", "r", "a", "t", "i", "o", "n", "s", " ", "i", "n", " ", "l", "a", "s", "t", " ", "5", "m", "0", "s">>
      [] OTHER -> <<"h", "e", "a", "l", "t", "h", "y">>

\* VersionService.Health: the map of checks
ServiceHealth(redisErr, gitErr, h, now) ==
    [redis |-> RedisCheckText(redisErr),
     git |-> GitCheckText(Health(gitErr # <<>>, h, now), gitErr)]

\* (mutant) the handler looks for "healthy"
HandlerHealth_LooksForHealthy(checks) ==
    IF \E k \in DOMAIN checks : Contains(checks[k], <<"h", "e", "a", "l", "t", "h", "y">>)
    THEN [status |-> "unhealthy", code |-> 503, checks |-> checks]
    ELSE [status |-> "healthy", code |-> 200, checks |-> checks]

\* Handler.Health: the response and its HTTP status
HandlerHealth(checks) ==
    IF \E k \in DOMAIN checks : Contains(checks[k], <<"u", "n", "h", "e", "a", "l", "t", "h", "y">>)
    THEN [status |-> "unhealthy", code |-> 503, checks |-> checks]
    ELSE [status |-> "healthy", code |-> 200, checks |-> checks]

\* the health states the handler is asked in
HandlerHealthStates ==
    { h \in [recentFailures : 0..MaxRecorded, lastSuccess : {0, MaxTime - 1},
             lastFailure : {ZeroTime, 0, MaxTime - 2}] :
        h.recentFailures > 0 <=> h.lastFailure # ZeroTime }

CallHealth ==
    \E redisErr \in HealthErrors, gitErr \in HealthErrors,
       h \in HandlerHealthStates, now \in {MaxTime - 1, MaxTime} :
        /\ fn.op = ""
        /\ fn' = [op |-> "Health",
                  in |-> [redisErr |-> redisErr, gitErr |-> gitErr, h |-> h, now |-> now],
                  out |-> HandlerHealth(ServiceHealth(redisErr, gitErr, h, now))]
        /\ UNCHANGED << serviceVars, lk >>

\* the names of the tags of a project
TagNames ==
    { <<"v", "2", ".", "0", ".", "0">>, <<"2", ".", "1", ".", "0">>,
      <<"2", ".", "1", ".", "0", "-", "r", "c">>, <<"2", ".", "1", ".", "0", "-", "a">>,
      <<"v", "1", "0", ".", "0", ".", "0">>, <<"9", ".", "0", ".", "0">>,
      <<"v", "v", "1", "1", ".", "0", ".", "0">>, <<"r", "c">>, <<"v">>, <<>> }

CallFindLatestSemanticVersion ==
    \E tags \in UNION { [1..n -> TagNames] : n \in 0..MaxTags } :
        \E latest \in findLatestSemanticVersion(tags) :
            /\ fn.op = ""
            /\ fn' = [op |-> "findLatestSemanticVersion", in |-> tags, out |-> latest]
            /\ UNCHANGED << serviceVars, lk >>

NextFunctions ==
    \/ CallParseAppID
    \/ CallFindLatestSemanticVersion
    \/ CallHealth

SpecFunctions == InitHealth /\ [][NextFunctions]_vars

\* ------------------------------------------------------------------------
\* The locks: s.mu, s.gitHealthMu, s.gitMetricsMu of the service and g.mu of
\* the Git store, in the order each task takes and releases them
\* ------------------------------------------------------------------------

\* (mutant) markPushNeeded is called while g.mu is still held
WriteLocks_MarkInsideStore ==
    << <<"Lock", "gitMetricsMu">>, <<"Unlock", "gitMetricsMu">>,
       <<"Lock", "g.mu">>,
       <<"Lock", "s.mu">>, <<"Unlock", "s.mu">>,
       <<"Unlock", "g.mu">>,
       <<"Lock", "gitHealthMu">>, <<"Unlock", "gitHealthMu">>,
       <<"Lock", "gitMetricsMu">>, <<"Unlock", "gitMetricsMu">> >>

\* saveVersionToGitWithRetry, a retryable failure and then a push failure:
\* updateGitMetrics, SetVersion, SetVersion, trackRetry, markPushNeeded,
\* updateGitHealth, updateGitMetrics
WriteLocks ==
    << <<"Lock", "gitMetricsMu">>, <<"Unlock", "gitMetricsMu">>,
       <<"Lock", "g.mu">>, <<"Unlock", "g.mu">>,
       <<"Lock", "g.mu">>, <<"Unlock", "g.mu">>,
       <<"Lock", "gitMetricsMu">>, <<"Unlock", "gitMetricsMu">>,
       <<"Lock", "s.mu">>, <<"Unlock", "s.mu">>,
       <<"Lock", "gitHealthMu">>, <<"Unlock", "gitHealthMu">>,
       <<"Lock", "gitMetricsMu">>, <<"Unlock", "gitMetricsMu">> >>

\* the lock operations of a task, in program order
LockOps(p) ==
    CASE p \in {"inc1", "inc2"} ->
           \* IncrementVersion: s.mu held over git.GetVersion of GetVersion
           << <<"Lock", "s.mu">>, <<"Lock", "g.mu">>, <<"Unlock", "g.mu">>,
              <<"Unlock", "s.mu">> >>
      [] p = "get" ->
           \* GetVersion on a cache miss: git.GetVersion
           << <<"Lock", "g.mu">>, <<"Unlock", "g.mu">> >>
      [] p = "write" -> WriteLocks
      [] p = "retry" ->
           \* periodicPushRetry: read the flag, PushPendingCommits,
           \* updateGitHealth, clear the flag
           << <<"RLock", "s.mu">>, <<"RUnlock", "s.mu">>,
              <<"Lock", "g.mu">>, <<"Unlock", "g.mu">>,
              <<"Lock", "gitHealthMu">>, <<"Unlock", "gitHealthMu">>,
              <<"Lock", "s.mu">>, <<"Unlock", "s.mu">> >>
      [] p = "health" ->
           \* Health: copy of s.gitHealth, then git.Health
           << <<"RLock", "gitHealthMu">>, <<"RUnlock", "gitHealthMu">>,
              <<"Lock", "g.mu">>, <<"Unlock", "g.mu">> >>
      [] OTHER ->
           \* logMetricsPeriodically
           << <<"RLock", "gitMetricsMu">>, <<"RUnlock", "gitMetricsMu">> >>

\* the locks task p holds after n of its operations, as <<mode, lock>>
RECURSIVE HeldAfter(_, _)
HeldAfter(p, n) ==
    IF n = 0 THEN {}
    ELSE LET op == LockOps(p)[n]
             h == HeldAfter(p, n - 1)
         IN  CASE op[1] = "Lock" -> h \cup { <<"w", op[2]>> }
               [] op[1] = "RLock" -> h \cup { <<"r", op[2]>> }
               [] op[1] = "Unlock" -> h \ { <<"w", op[2]>> }
               [] OTHER -> h \ { <<"r", op[2]>> }

\* task p has operations left and its next one does not have to wait: a
\* Lock waits for every holder, an RLock for a writer
CanLockStep(p) ==
    /\ lk[p] < Len(LockOps(p))
    /\ LET op == LockOps(p)[lk[p] + 1]
           others == UNION { HeldAfter(q, lk[q]) : q \in LockTasks \ {p} }
       IN  CASE op[1] = "Lock" -> <<"w", op[2]>> \notin others /\ <<"r", op[2]>> \notin others
             [] op[1] = "RLock" -> <<"w", op[2]>> \notin others
             [] OTHER -> TRUE

LockStep(p) ==
    /\ CanLockStep(p)
    /\ lk' = [lk EXCEPT ![p] = @ + 1]
    /\ UNCHANGED << fn, serviceVars >>

NextLocks == \E p \in LockTasks : LockStep(p)

SpecLocks == InitHealth /\ [][NextLocks]_vars

\* a versions.json written by other hands: the current of the record is not
\* a version
LegacyDurable ==
    [a \in AppIDs |-> IF ParseAppID(a).err THEN NilVersion
                      ELSE AppVersion(<<"1", ".", "2">>,
                                      ParseAppID(a).projectID, ParseAppID(a).appName)]

\* one request task over a durable store that may hold such a record
InitLegacy ==
    /\ InitService
    /\ gitFile \in InitialDurable \cup {LegacyDurable}
    /\ budget = [callers |-> 1, calls |-> MaxCalls, faults |-> MaxFaults - 1, log |-> FALSE]

SpecLegacy == InitLegacy /\ [][Next]_vars

\* one call, with the attempts of its background writes kept in wlog
InitWrites ==
    /\ InitState
    /\ budget = [callers |-> 1, calls |-> 1, faults |-> MaxFaults, log |-> TRUE]

SpecWrites == InitWrites /\ [][Next]_vars

\* one step of some background write goroutine
WriteStep ==
    \E i \in 1..Len(tasks) :
        WriteAttempt(i) \/ WriteMarkPush(i) \/ WriteMarkExhausted(i)

\* the same, with the write goroutines scheduled: a goroutine that can step
\* again and again does step (a waiter of sync.Mutex is not starved), and
\* IncrementVersion gives s.mu back (defer s.mu.Unlock())
SpecWritesFair == SpecWrites /\ SF_vars(WriteStep) /\ []<>(mu = 0)

\* ------------------------------------------------------------------------
\* Properties
\* ------------------------------------------------------------------------

\* C1: IncrementVersion calls in flight at the same time on one identifier,
\* with no cache or durable failure and no other operation on it, are
\* serialized: every returned version is the increment of the version the
\* previous call returned, no two returned versions are equal, and once all
\* calls have returned the cache holds the last returned version, so that
\* no increment is lost.
C1_IncrementsSerialized ==
    \A a \in AppIDs :
        (faults = 0 /\ ~hist[a].others) =>
            LET L == hist[a].incs IN
            /\ \A k \in 1..Len(L) :
                   L[k].version = calculateNextVersion(L[k].base, L[k].type).next
            /\ \A k \in 2..Len(L) : L[k].base = L[k - 1].version
            /\ \A j, k \in 1..Len(L) : j # k => L[j].version # L[k].version
            /\ (Len(L) > 0 /\ \A c \in Callers : call[c].pc \in {"idle", "done"})
                   => redis[a].Current = L[Len(L)].version

\* two increments of one identifier that overlapped have both returned
C1_Witness ==
    /\ faults = 0
    /\ \A c \in Callers : call[c].pc = "done" /\ call[c].op = "inc"
                          /\ call[c].result.err = "ok"
    /\ call[1].appID = call[2].appID
    /\ Len(hist[call[1].appID].incs) = 2
    /\ ~hist[call[1].appID].others

\* C2: with no failure and no expiry, whatever the interleaving of
\* GetVersion, IncrementVersion and the background writes, the current
\* version the cache holds for an identifier is never lower, by Compare,
\* than a version IncrementVersion has returned for it.
C2_CacheNeverDecreases ==
    \A a \in AppIDs :
        (faults = 0 /\ ~redis[a].nil) =>
            \A k \in 1..Len(hist[a].incs) :
                Compare(redis[a].Current, hist[a].incs[k].version).val >= 0

\* C3: with no failure of the cache or of the durable store at all, once
\* every request has returned, every background write has ended and no
\* push is pending, the durable store holds for each identifier the record
\* last written to the cache by saveVersion.
C3_DurableCatchesUp ==
    \A a \in AppIDs :
        ( /\ faults = 0
          /\ ~hist[a].saved.nil
          /\ tasks = <<>>
          /\ \A c \in Callers : call[c].pc \in {"idle", "done"}
          /\ ~pushNeeded /\ ~unpushed /\ pushRetry = "idle" )
        => gitFile[a] = hist[a].saved

\* C4: a GetVersion that found the identifier in neither the cache nor the
\* durable store and got no seed from Tag Discovery returns a record whose
\* current is "1.0.0", whose groupId is the part of the identifier before
\* the first dash and whose name is the rest; in the step that returns, the
\* record is in the cache and one durable write of it has been started.
C4_FirstResolveDefault ==
    [][ \A c \in Callers :
          ( /\ call[c].pc = "gsave" /\ call[c].op = "get"
            /\ "redis miss" \in call[c].fx /\ "git miss" \in call[c].fx
            /\ call[c].tagHit \in { <<>>, <<"error">> }
            /\ call'[c].pc = "done" /\ call'[c].result.err = "ok" )
          => LET a == call[c].appID
                 rec == call'[c].result.rec
                 i == CHOOSE i \in 1..Len(a) :
                          a[i] = "-" /\ \A j \in 1..(i - 1) : a[j] # "-"
             IN  /\ ~rec.nil
                 /\ rec.Current = <<"1", ".", "0", ".", "0">>
                 /\ rec.ProjectID = SubSeq(a, 1, i - 1)
                 /\ rec.AppName = SubSeq(a, i + 1, Len(a))
                 /\ redis'[a] = rec
                 /\ tasks' = Append(tasks, [appID |-> a, version |-> rec,
                                            attempt |-> 0, pc |-> "try"]) ]_vars

\* a GetVersion of an unseen identifier has returned the default record
C4_Witness ==
    \E c \in Callers :
        /\ call[c].pc = "done" /\ call[c].op = "get" /\ call[c].result.err = "ok"
        /\ {"redis miss", "git miss", "redis.Set", "go git"} \subseteq call[c].fx
        /\ call[c].tagHit = <<>>
        /\ call[c].result.rec.Current = <<"1", ".", "0", ".", "0">>

\* C5: a GetVersion that found the identifier in the durable store but not
\* in the cache returns the record it read from the durable store and
\* writes that record to the cache before it returns; when that cache write
\* fails it returns the record all the same; it starts no durable write
\* and leaves the durable store as it is.
C5_DurableHitFillsCache ==
    [][ \A c \in Callers :
          LET a == call[c].appID IN
          /\ (call[c].pc = "ggit" /\ call'[c].pc = "gcache")
                => (call'[c].version = gitFile[a] /\ ~gitFile[a].nil)
          /\ (call[c].pc = "gcache" /\ call[c].op = "get" /\ call'[c] # call[c])
                => /\ call'[c].pc = "done"
                   /\ call'[c].result.err = "ok"
                   /\ call'[c].result.rec = call[c].version
                   /\ \/ redis'[a] = call[c].version
                      \/ /\ "fill redis.Set failed" \in call'[c].fx
                         /\ redis' = redis
                   /\ tasks' = tasks
                   /\ gitFile' = gitFile /\ unpushed' = unpushed ]_vars

\* a GetVersion has returned the durable record although caching it failed
C5_Witness ==
    \E c \in Callers :
        /\ call[c].pc = "done" /\ call[c].op = "get" /\ call[c].result.err = "ok"
        /\ {"redis miss", "git hit", "fill redis.Set failed"} \subseteq call[c].fx
        /\ ~call[c].result.rec.nil
        /\ redis[call[c].appID].nil
        /\ tasks = <<>>

\* C6: a call whose cache read failed goes on to read the durable store, as
\* after a miss, and a GetVersion that then found the record in the durable
\* store returns that record without error.
C6_CacheReadFailureIsMiss ==
    \A c \in Callers :
        "redis.Get failed" \in call[c].fx =>
            /\ call[c].pc = "ggit" \/ "git.Get" \in call[c].fx
            /\ "redis miss" \notin call[c].fx /\ "redis hit" \notin call[c].fx
            /\ (call[c].pc = "done" /\ call[c].op = "get" /\ "git hit" \in call[c].fx)
                   => /\ call[c].result.err = "ok"
                      /\ ~call[c].result.rec.nil
                      /\ call[c].result.rec = call[c].version

\* a GetVersion whose cache read failed has returned the durable record
C6_Witness ==
    \E c \in Callers :
        /\ call[c].pc = "done" /\ call[c].op = "get"
        /\ {"redis.Get failed", "git hit"} \subseteq call[c].fx
        /\ call[c].result.err = "ok"
        /\ call[c].result.rec = gitFile[call[c].appID]

\* C7: when the durable read of a call fails, after a cache miss or a
\* failed cache read, the call returns the error "failed to get version
\* from Git" and no record; the step leaves the cache, the durable store,
\* the background writes and pushNeeded as they are, the call has written
\* nothing and Tag Discovery was not consulted.
C7_DurableReadFailure ==
    [][ \A c \in Callers :
          ( /\ call[c].pc = "ggit"
            /\ "git.Get failed" \in call'[c].fx )
          => /\ call'[c].pc = "done"
             /\ call'[c].result.err = "failed to get version from Git"
             /\ call'[c].result.rec.nil /\ call'[c].result.ver = <<>>
             /\ call'[c].tagQ = {} /\ call'[c].tagHit = <<>>
             /\ call'[c].fx \subseteq {"redis.Get", "redis miss", "redis.Get failed",
                                       "git.Get", "git.Get failed"}
             /\ UNCHANGED << redis, gitFile, unpushed, pushNeeded, tasks,
                             gitHealth, gitMetrics, hist >> ]_vars

\* a call has returned the durable read error after a failed cache read
C7_Witness ==
    \E c \in Callers :
        /\ call[c].pc = "done"
        /\ call[c].result.err = "failed to get version from Git"
        /\ {"redis.Get failed", "git.Get failed"} \subseteq call[c].fx

\* C8: GetVersion, IncrementVersion and GetDevVersion called with an
\* identifier without a dash return the error "invalid app ID"; the call
\* reads and writes neither the cache nor the durable store.
C8_InvalidIdentifier ==
    [][ \A c \in Callers :
          ( /\ \A i \in 1..Len(call[c].appID) : call[c].appID[i] # "-"
            /\ call[c].pc \notin {"idle", "done"}
            /\ call'[c] # call[c] )
          => /\ call[c].pc \in {"gread", "lock"}
             /\ call'[c].pc = "done"
             /\ call'[c].result.err = "invalid app ID"
             /\ call'[c].result.rec.nil /\ call'[c].result.ver = <<>>
             /\ call'[c].fx = {} /\ call'[c].tagQ = {}
             /\ UNCHANGED << redis, gitFile, unpushed, pushNeeded, tasks,
                             gitHealth, gitMetrics, hist, faults >> ]_vars

\* the three operations have been refused an identifier without a dash
C8_Witness ==
    \E c \in Callers :
        /\ call[c].pc = "done"
        /\ call[c].appID = <<"x">>
        /\ call[c].result.err = "invalid app ID"
        /\ call[c].fx = {}

\* C9: after a durable miss Tag Discovery is asked, if at all, about the
\* groupId of the identifier only; the new record's current is the tag it
\* returned when it returned one, and "1.0.0" when it failed, is not
\* configured or returned nothing; the call fails only when the cache
\* write of the new record fails, never because of Tag Discovery.
C9_TagSeed ==
    \A c \in Callers :
        "git miss" \in call[c].fx =>
            LET a == call[c].appID
                i == CHOOSE i \in 1..Len(a) :
                         a[i] = "-" /\ \A j \in 1..(i - 1) : a[j] # "-"
            IN  /\ call[c].tagQ \subseteq { SubSeq(a, 1, i - 1) }
                /\ call[c].version.Current =
                       IF call[c].tagHit \in { <<>>, <<"error">> }
                       THEN <<"1", ".", "0", ".", "0">>
                       ELSE call[c].tagHit
                /\ call[c].pc = "done" =>
                       \/ call[c].result.err = "ok"
                       \/ /\ call[c].result.err = "failed to save version to Redis"
                          /\ call[c].fx \cap {"redis.Set failed", "inc redis.Set failed"} # {}
                /\ (call[c].pc = "done" /\ call[c].op = "get"
                        /\ call[c].result.err = "ok")
                       => call[c].result.rec.Current = call[c].version.Current

\* a GetVersion has returned a new record seeded with the latest tag
C9_Witness ==
    \E c \in Callers :
        /\ call[c].pc = "done" /\ call[c].op = "get" /\ call[c].result.err = "ok"
        /\ "git miss" \in call[c].fx
        /\ call[c].tagQ = { <<"7">> }
        /\ call[c].tagHit = <<"2", ".", "1", ".", "0">>
        /\ call[c].result.rec.Current = <<"2", ".", "1", ".", "0">>

\* C10: when the cache write of saveVersion fails, the call returns the
\* error "failed to save version to Redis", no background durable write is
\* started, and the cache, the durable store, gitHealth, gitMetrics and
\* pushNeeded are left as they are.
C10_SaveCacheFailure ==
    [][ \A c \in Callers :
          ( /\ call[c].pc \in {"gsave", "isave"}
            /\ call'[c].fx \cap {"redis.Set failed", "inc redis.Set failed"} # {} )
          => /\ call'[c].pc = "done"
             /\ call'[c].result.err = "failed to save version to Redis"
             /\ call'[c].result.rec.nil /\ call'[c].result.ver = <<>>
             /\ UNCHANGED << redis, gitFile, unpushed, pushNeeded, tasks,
                             gitHealth, gitMetrics >> ]_vars

\* an IncrementVersion has returned the cache write error
C10_Witness ==
    \E c \in Callers :
        /\ call[c].pc = "done" /\ call[c].op = "inc"
        /\ call[c].result.err = "failed to save version to Redis"
        /\ "inc redis.Set failed" \in call[c].fx
        /\ tasks = <<>>

\* C11: saveVersion returns success in the step in which its cache write
\* succeeds, the durable write it started not having made any attempt yet;
\* and the result a call has returned stays as it is until the request
\* task takes its next call, whatever the attempts of the background
\* writes end in.
C11_SaveNotAwaited ==
    [][ \A c \in Callers :
          /\ ( /\ call[c].pc \in {"gsave", "isave"}
               /\ call'[c].fx \cap {"redis.Set", "inc redis.Set"}
                      # call[c].fx \cap {"redis.Set", "inc redis.Set"} )
             => /\ call'[c].pc = "done" => call'[c].result.err = "ok"
                /\ call'[c].pc # "done" => call'[c].pc = "isave"
                /\ gitFile' = gitFile /\ unpushed' = unpushed
                /\ Len(tasks') = Len(tasks) + 1
                /\ tasks'[Len(tasks')].attempt = 0
                /\ tasks'[Len(tasks')].pc = "try"
          /\ (call[c].pc = "done" /\ call'[c] # call[c])
             => ncalls' = ncalls + 1 ]_vars

\* an IncrementVersion has returned success and the durable write of the
\* version it returned has ended in a non-retryable failure
C11_Witness ==
    \E c \in Callers :
        /\ call[c].pc = "done" /\ call[c].op = "inc"
        /\ call[c].result.err = "ok"
        /\ \E e \in wlog : /\ e.appID = call[c].appID
                           /\ e.current = call[c].result.ver
                           /\ e.class = "non-retryable"
        /\ tasks = <<>>

C13_SuccessResets ==
    [][ /\ \A e \in wlog' \ wlog :
             e.class = "success" =>
                 /\ gitHealth'.recentFailures = 0
                 /\ Len(tasks') = Len(tasks) - 1
                 /\ \A i \in 1..Len(tasks') :
                        ~(tasks'[i].appID = e.appID
                          /\ tasks'[i].version.Current = e.current)
        /\ \A e \in wlog' \ wlog : \A d \in wlog :
             (d.appID = e.appID /\ d.current = e.current) => d.class # "success"
        /\ (pushRetry = "push" /\ pushRetry' = "clear")
             => gitHealth'.recentFailures = 0
        /\ \A n \in 0..(maxRetries + 1) :
             updateGitHealth([recentFailures |-> n], TRUE).recentFailures = 0 ]_vars

\* one write has ended in a non-retryable failure, another has succeeded
\* after it, nothing was left to push, and recentFailures is 0
C13_Witness ==
    /\ gitHealth.recentFailures = 0
    /\ tasks = <<>>
    /\ \E e \in wlog : e.class = "success"
    /\ \E e \in wlog : e.class = "non-retryable"
    /\ \A e \in wlog : e.class # "push-failure" /\ e.attempt < 2

\* C14: an attempt of a background write classified as a push failure, on
\* whatever attempt number, has committed the record locally and is the
\* last attempt of that write; the write then sets pushNeeded and adds
\* exactly 1 to recentFailures, in one step, and ends.
C14_PushFailure ==
    [][ /\ \A e \in wlog' \ wlog :
             e.class = "push-failure" =>
                 /\ unpushed'
                 /\ gitFile'[e.appID].Current = e.current
                 /\ gitHealth' = gitHealth /\ pushNeeded' = pushNeeded
                 /\ \E i \in 1..Len(tasks') :
                        /\ tasks'[i].appID = e.appID
                        /\ tasks'[i].version.Current = e.current
                        /\ tasks'[i].attempt = e.attempt
                        /\ tasks'[i].pc = "pushfail"
        /\ \A e \in wlog' \ wlog : \A d \in wlog :
             (d.appID = e.appID /\ d.current = e.current) => d.class # "push-failure"
        /\ \A i \in 1..Len(tasks) :
             tasks[i].pc = "pushfail" =>
                 \/ /\ Len(tasks') >= Len(tasks)
                    /\ tasks'[i] = tasks[i]
                 \/ /\ Len(tasks') = Len(tasks) - 1
                    /\ \/ /\ i > 1 /\ tasks'[i - 1] = tasks[i]
                       \/ /\ i <= Len(tasks') /\ tasks'[i] = tasks[i]
                       \/ /\ pushNeeded'
                          /\ gitHealth'.recentFailures = gitHealth.recentFailures + 1 ]_vars

\* a write has ended in a push failure on its second attempt and has set
\* pushNeeded
C14_Witness ==
    /\ pushNeeded
    /\ unpushed
    /\ tasks = <<>>
    /\ gitHealth.recentFailures = 1
    /\ \E e \in wlog : e.class = "push-failure" /\ e.attempt = 1
    /\ \A e \in wlog : e.class \in {"push-failure", "retryable"}

\* C15: the step in which an attempt of a background write is classified as
\* non-retryable ends that write (it makes no further attempt), adds 1 to
\* recentFailures, leaves pushNeeded and the durable store as they are and,
\* when the attempt is the first, leaves retriesTotal as it is.
C15_NonRetryable ==
    [][ /\ \A e \in wlog' \ wlog :
             e.class = "non-retryable" =>
                 /\ gitHealth'.recentFailures = gitHealth.recentFailures + 1
                 /\ pushNeeded' = pushNeeded
                 /\ gitFile' = gitFile /\ unpushed' = unpushed
                 /\ Len(tasks') = Len(tasks) - 1
                 /\ \A i \in 1..Len(tasks') :
                        ~(tasks'[i].appID = e.appID
                          /\ tasks'[i].version.Current = e.current)
                 /\ gitMetrics'.retriesTotal =
                        gitMetrics.retriesTotal + (IF e.attempt = 0 THEN 0 ELSE 1)
        /\ \A e \in wlog' \ wlog : \A d \in wlog :
             (d.appID = e.appID /\ d.current = e.current) => d.class # "non-retryable" ]_vars

\* a write has ended in a non-retryable failure of its first attempt
C15_Witness ==
    /\ tasks = <<>>
    /\ ~pushNeeded
    /\ gitHealth.recentFailures = 1
    /\ gitMetrics.retriesTotal = 0
    /\ gitMetrics.operationsTotal = 1
    /\ \E e \in wlog : e.class = "non-retryable" /\ e.attempt = 0

\* C16: when the only background write so far has made three attempts, all
\* failed with retryable errors, and has ended setting pushNeeded, and the
\* push-retry task has not pushed since, recentFailures is 3.
C16_ExhaustedCountsThree ==
    ( /\ tasks = <<>>
      /\ gitMetrics.operationsTotal = 1
      /\ Cardinality(wlog) = 3
      /\ \A e \in wlog : e.class = "retryable"
      /\ pushNeeded
      /\ pushRetry = "idle" )
    => gitHealth.recentFailures = 3

\* C17: the push-retry task calls the durable store only when it has found
\* pushNeeded set, and pushNeeded stays set while it pushes; the step in
\* which the push of the pending commits succeeds leaves recentFailures at
\* 0 and nothing unpushed, and the step the task takes next sets pushNeeded
\* to false.
C17_PushRetrySuccess ==
    [][ /\ (pushRetry # "push" /\ pushRetry' = "push") => (pushRetry = "idle" /\ pushNeeded)
        /\ pushRetry' = "push" => pushNeeded'
        /\ (pushRetry = "push" /\ pushRetry' # "push")
             => \/ /\ pushRetry' = "clear"
                   /\ gitHealth'.recentFailures = 0
                   /\ ~unpushed'
                \/ /\ pushRetry' = "idle"
                   /\ faults' = faults + 1
        /\ pushRetry' = "clear" => pushRetry \in {"push", "clear"}
        /\ (pushRetry = "clear" /\ pushRetry' # "clear")
             => (pushRetry' = "idle" /\ ~pushNeeded') ]_vars

\* after a push failure of a write, the push-retry task has pushed the
\* pending commit and cleared pushNeeded
C17_Witness ==
    /\ ~pushNeeded
    /\ ~unpushed
    /\ pushRetry = "idle"
    /\ gitHealth.recentFailures = 0
    /\ tasks = <<>>
    /\ \E e \in wlog : e.class = "push-failure"
    /\ \A e \in wlog : e.class # "success"

\* C18: the step in which the push of the pending commits by the push-retry
\* task fails leaves pushNeeded set and adds 1 to recentFailures.
C18_PushRetryFailureCounted ==
    [][ (pushRetry = "push" /\ pushRetry' = "idle")
          => /\ pushNeeded'
             /\ gitHealth'.recentFailures = gitHealth.recentFailures + 1 ]_vars

\* C19: the verdict Health gives on the Git store is: unhealthy iff the
\* store's own check errs; otherwise degraded with the failure count (and
\* the time of the last failure when the count is 3 or more) if
\* recentFailures > 0 and the last failure is less than 5 minutes old;
\* otherwise degraded for want of successful operations if a success was
\* once recorded and the last one is more than 5 minutes old; otherwise
\* healthy.
C19_HealthVerdict ==
    hs.check.asked =>
        LET h == hs.health
            v == hs.check.verdict
        IN  IF hs.check.gitErr THEN v.status = "unhealthy"
            ELSE IF h.recentFailures > 0 /\ hs.now - h.lastFailure < 5
            THEN /\ v.status = "degraded"
                 /\ v.count = h.recentFailures
                 /\ h.recentFailures >= 3 => v.last = h.lastFailure
            ELSE IF hs.recorded /\ hs.now - h.lastSuccess > 5
            THEN v.status = "degraded" /\ v.reason = "no successful operations"
            ELSE v.status = "healthy"

\* C20: every failed write attempt is classified as exactly one of
\* push-failure, non-retryable and retryable; an error that reports a
\* credential, permission or authorization problem is non-retryable, and
\* every error that is neither a push-failure nor non-retryable is retryable.
C20_Classification ==
    \A e \in wlog :
        e.class # "success" =>
            /\ e.class \in {"push-failure", "non-retryable", "retryable"}
            /\ e.denied => e.class = "non-retryable"
            /\ e.class \notin {"push-failure", "non-retryable"} => e.class = "retryable"

C23_Increments ==
    LET Triple(ma, mi, pa) ==
            [ok |-> TRUE, Major |-> ma, Minor |-> mi, Patch |-> pa, Prerelease |-> <<>>]
        Expected(v, type) ==
            CASE type = "patch" -> Triple(v.Major, v.Minor, v.Patch + 1)
              [] type = "minor" -> Triple(v.Major, v.Minor + 1, 0)
              [] type = "major" -> Triple(v.Major + 1, 0, 0)
    IN  /\ fn.op = "IncrementPatch" => fn.out = Expected(fn.in, "patch")
        /\ fn.op = "IncrementMinor" => fn.out = Expected(fn.in, "minor")
        /\ fn.op = "IncrementMajor" => fn.out = Expected(fn.in, "major")
        /\ fn.op = "calculateNextVersion" =>
              LET v == Parse(fn.in.current)
              IN  /\ fn.out.err <=> ~v.ok
                  /\ (v.ok /\ fn.in.type \in {"patch", "minor", "major"}) =>
                        LET e == Expected(v, fn.in.type)
                        IN  fn.out.next = Itoa(e.Major) \o <<".">> \o Itoa(e.Minor)
                                          \o <<".">> \o Itoa(e.Patch)

C23_Witness ==
    /\ fn.op = "calculateNextVersion"
    /\ fn.in.current = <<"1", ".", "9", ".", "1", "0", "-", "r", "c">>
    /\ fn.in.type = "minor"
    /\ fn.out = [err |-> FALSE, next |-> <<"1", ".", "1", "0", ".", "0">>]

\* C24: WithDevSuffix(v, sha) keeps major, minor and patch and sets the
\* prerelease to "dev-" followed by the first 7 characters of sha, or by the
\* whole sha when it has fewer than 7; the prerelease v had is replaced.
C24_DevSuffix ==
    fn.op = "WithDevSuffix" =>
        LET v == fn.in.v
            sha == fn.in.sha
            n == IF Len(sha) < 7 THEN Len(sha) ELSE 7
            pre == fn.out.Prerelease
        IN  /\ fn.out.Major = v.Major /\ fn.out.Minor = v.Minor /\ fn.out.Patch = v.Patch
            /\ Len(pre) = 4 + n
            /\ pre[1] = "d" /\ pre[2] = "e" /\ pre[3] = "v" /\ pre[4] = "-"
            /\ \A i \in 1..n : pre[4 + i] = sha[i]

C24_Witness ==
    /\ fn.op = "WithDevSuffix"
    /\ fn.in.v.Prerelease = <<"r", "c">>
    /\ Len(fn.in.sha) = 9
    /\ fn.out.Prerelease = <<"d", "e", "v", "-", "a", "b", "c", "1", "2", "3", "4">>

\* C25 (as stated): for valid version strings Compare returns exactly one of
\* -1, 0, 1, ordering by major, then minor, then patch; with equal numbers
\* a release is greater than any prerelease and two prereleases are ordered
\* byte-wise; Compare returns an error when either string does not parse.
C25_CompareMinusOneZeroOne ==
    fn.op = "Compare" =>
        LET a == Parse(fn.in.v1)
            b == Parse(fn.in.v2)
        IN  /\ fn.out.err <=> (~a.ok \/ ~b.ok)
            /\ (a.ok /\ b.ok) =>
                  fn.out.val =
                      IF a.Major # b.Major THEN (IF a.Major < b.Major THEN -1 ELSE 1)
                      ELSE IF a.Minor # b.Minor THEN (IF a.Minor < b.Minor THEN -1 ELSE 1)
                      ELSE IF a.Patch # b.Patch THEN (IF a.Patch < b.Patch THEN -1 ELSE 1)
                      ELSE IF a.Prerelease = <<>> /\ b.Prerelease = <<>> THEN 0
                      ELSE IF a.Prerelease = <<>> THEN 1
                      ELSE IF b.Prerelease = <<>> THEN -1
                      ELSE StrCompare(a.Prerelease, b.Prerelease)

\* C25 (amended): for valid version strings Compare returns a negative
\* number, zero or a positive number (the difference of the first numbers
\* that differ, else -1, 0 or 1), ordering by major, then minor, then patch;
\* with equal numbers a release is greater than any prerelease and two
\* prereleases are ordered byte-wise; Compare returns an error when either
\* string does not parse.
C25_CompareSign ==
    fn.op = "Compare" =>
        LET a == Parse(fn.in.v1)
            b == Parse(fn.in.v2)
            val == fn.out.val
        IN  /\ fn.out.err <=> (~a.ok \/ ~b.ok)
            /\ (a.ok /\ b.ok) =>
                  IF a.Major # b.Major THEN val = a.Major - b.Major
                  ELSE IF a.Minor # b.Minor THEN val = a.Minor - b.Minor
                  ELSE IF a.Patch # b.Patch THEN val = a.Patch - b.Patch
                  ELSE IF a.Prerelease = <<>> /\ b.Prerelease = <<>> THEN val = 0
                  ELSE IF a.Prerelease = <<>> THEN val = 1
                  ELSE IF b.Prerelease = <<>> THEN val = -1
                  ELSE val = StrCompare(a.Prerelease, b.Prerelease)
            /\ (a.ok /\ b.ok) =>
                  /\ val < 0 <=> \/ a.Major < b.Major
                                 \/ a.Major = b.Major /\ a.Minor < b.Minor
                                 \/ a.Major = b.Major /\ a.Minor = b.Minor
                                    /\ a.Patch < b.Patch
                                 \/ a.Major = b.Major /\ a.Minor = b.Minor
                                    /\ a.Patch = b.Patch
                                    /\ a.Prerelease # <<>>
                                    /\ \/ b.Prerelease = <<>>
                                       \/ StrCompare(a.Prerelease, b.Prerelease) < 0
                  /\ val = 0 <=> a = b

C25_Witness ==
    /\ fn.op = "Compare"
    /\ fn.in.v1 = <<"1", "0", ".", "0", ".", "0">>
    /\ fn.in.v2 = <<"1", ".", "9", ".", "1", "-", "r", "c">>
    /\ fn.out = [err |-> FALSE, val |-> 9]

\* C26: ParseAppID splits an identifier on '-': the first segment is the
\* groupId and the remaining segments rejoined with '-' are the name; an
\* identifier with fewer than two segments is rejected; for every accepted
\* identifier id, FormatAppID(ParseAppID(id)) = id.
C26_ParseAppID ==
    fn.op = "ParseAppID" =>
        LET id == fn.in
            dashes == { i \in 1..Len(id) : id[i] = "-" }
        IN  /\ fn.out.err <=> dashes = {}
            /\ ~fn.out.err =>
                  LET k == CHOOSE i \in dashes : \A j \in dashes : i <= j
                  IN  /\ fn.out.projectID = SubSeq(id, 1, k - 1)
                      /\ fn.out.appName = SubSeq(id, k + 1, Len(id))
                      /\ FormatAppID(fn.out.projectID, fn.out.appName) = id

C26_Witness ==
    /\ fn.op = "ParseAppID"
    /\ fn.in = <<"7", "-", "a", "-", "a">>
    /\ fn.out = [err |-> FALSE, projectID |-> <<"7">>, appName |-> <<"a", "-", "a">>]

\* C30: Tag Discovery returns, among the tags whose name (after removing one
\* leading 'v') parses as a SemVer value, the one that is highest under the
\* order of Compare, without the leading 'v'; it returns the empty result
\* when no tag parses, so a seed it supplies is a valid SemVer string.
C30_LatestTag ==
    fn.op = "findLatestSemanticVersion" =>
        LET Bare(t) == IF Len(t) > 0 /\ t[1] = "v" THEN SubSeq(t, 2, Len(t)) ELSE t
            cands == { t \in { Bare(fn.in[i]) : i \in 1..Len(fn.in) } : IsValid(t) }
        IN  IF cands = {} THEN fn.out = <<>>
            ELSE /\ fn.out \in cands
                 /\ IsValid(fn.out)
                 /\ \A c \in cands : Compare(fn.out, c).val >= 0

C30_Witness ==
    /\ fn.op = "findLatestSemanticVersion"
    /\ fn.in = << <<"9", ".", "0", ".", "0">>, <<"v", "1", "0", ".", "0", ".", "0">>,
                  <<"r", "c">> >>
    /\ fn.out = <<"1", "0", ".", "0", ".", "0">>

\* C29: the health endpoint reports the overall status "unhealthy" with HTTP
\* 503 if and only if at least one dependency check is unhealthy, and
\* "healthy" with HTTP 200 otherwise; a durable tier that is only degraded
\* never turns the overall status unhealthy.
C29_HealthEndpoint ==
    fn.op = "Health" =>
        LET depUnhealthy == fn.in.redisErr # <<>> \/ fn.in.gitErr # <<>>
            gitVerdict == Health(fn.in.gitErr # <<>>, fn.in.h, fn.in.now)
        IN  /\ depUnhealthy => fn.out.status = "unhealthy" /\ fn.out.code = 503
            /\ ~depUnhealthy => fn.out.status = "healthy" /\ fn.out.code = 200
            /\ (gitVerdict.status = "degraded" /\ fn.in.redisErr = <<>>) =>
                   fn.out.status = "healthy" /\ fn.out.code = 200

C29_Witness ==
    /\ fn.op = "Health"
    /\ fn.in.redisErr = <<>> /\ fn.in.gitErr = <<>>
    /\ fn.in.h.recentFailures = 3
    /\ Contains(fn.out.checks.git, <<"d", "e", "g", "r", "a", "d", "e", "d", ":", " ", "3">>)
    /\ Contains(fn.out.checks.git, <<"l", "a", "s", "t">>)
    /\ fn.out.status = "healthy" /\ fn.out.code = 200

\* C27: GetDevVersion for an identifier whose current version is c returns
\* the next patch version of c with the dev suffix of the request's sha
\* (current 1.2.3 and sha abc1234567890 give 1.2.4-dev-abc1234).
C27_DevVersionOfNextPatch ==
    \A c \in Callers :
        (call[c].op = "dev" /\ call[c].pc = "done" /\ call[c].result.err = "ok") =>
            call[c].result.ver =
                String(WithDevSuffix(IncrementPatch(Parse(call[c].version.Current)),
                                     call[c].sha))

\* C28: GetDevVersion never persists: for an identifier that already has a
\* record (the call's own lookup finds it in the cache or in the durable
\* store), no step of the call changes the record's current version in the
\* cache or in the durable store, and none schedules a durable write.
C28_DevVersionNotPersisted ==
    [][ \A c \in Callers :
          ( /\ call[c].op = "dev"
            /\ call[c].pc \notin {"idle", "done"}
            /\ call'[c] # call[c]
            /\ call'[c].fx \cap {"redis hit", "git hit"} # {} ) =>
              /\ gitFile' = gitFile
              /\ tasks' = tasks
              /\ ~redis[call[c].appID].nil =>
                    /\ ~redis'[call[c].appID].nil
                    /\ redis'[call[c].appID].Current = redis[call[c].appID].Current
      ]_vars

\* C21 (as stated): every record the orchestrator writes to the cache or to
\* the durable store (the first write of a resolve, seeded by Tag Discovery
\* or not, and every increment) has identifier = groupId + "-" + name and a
\* current that parses; an increment of a record whose current does not
\* parse fails with an error and writes nothing.
C21_WritesNothing ==
    [][ \A c \in Callers :
          ( /\ call[c].op = "inc"
            /\ call[c].pc \notin {"idle", "done"}
            /\ call'[c] # call[c]
            /\ ~call'[c].version.nil
            /\ ~IsValid(call'[c].version.Current) ) =>
              /\ call'[c].pc = "done" => call'[c].result.err \notin {"", "ok"}
              /\ redis' = redis /\ gitFile' = gitFile /\ tasks' = tasks
      ]_vars

\* C21 (amended): every record the orchestrator saves (the first write of a
\* resolve, seeded by Tag Discovery or not, and every increment) has
\* identifier = groupId + "-" + name and a current that parses, in the cache
\* and in the durable store; an increment of a record whose current does
\* not parse fails with an error and saves nothing: the durable store is
\* not written, no durable write is scheduled, and the only write to the
\* cache is the copy of the durable record made on a cache miss.
C21_SavedRecordsWellFormed ==
    [][ LET WellFormed(a, r) ==
                /\ ~r.nil
                /\ ~ParseAppID(a).err
                /\ r.ProjectID \o <<"-">> \o r.AppName = a
                /\ IsValid(r.Current)
        IN
        /\ \A c \in Callers :
              (call'[c].fx \ call[c].fx) \cap {"redis.Set", "inc redis.Set"} # {} =>
                  WellFormed(call[c].appID, redis'[call[c].appID])
        /\ Len(tasks') > Len(tasks) =>
              WellFormed(tasks'[Len(tasks')].appID, tasks'[Len(tasks')].version)
        /\ \A a \in AppIDs : gitFile'[a] # gitFile[a] => WellFormed(a, gitFile'[a])
        /\ \A c \in Callers :
              ( /\ call[c].op = "inc"
                /\ call[c].pc \notin {"idle", "done"}
                /\ call'[c] # call[c]
                /\ ~call'[c].version.nil
                /\ ~IsValid(call'[c].version.Current) ) =>
                  /\ call'[c].pc = "done" => call'[c].result.err \notin {"", "ok"}
                  /\ gitFile' = gitFile /\ tasks' = tasks
                  /\ redis' # redis =>
                        /\ "fill redis.Set" \in call'[c].fx \ call[c].fx
                        /\ redis' = [redis EXCEPT ![call[c].appID] = gitFile[call[c].appID]]
      ]_vars

C21_Witness ==
    \E c \in Callers :
        /\ call[c].op = "inc" /\ call[c].pc = "done"
        /\ call[c].result.err \notin {"", "ok"}
        /\ call[c].version.Current = <<"1", ".", "2">>
        /\ redis[call[c].appID].Current = <<"1", ".", "2">>
        /\ gitFile[call[c].appID].Current = <<"1", ".", "2">>
        /\ tasks = <<>>

\* C31: every successful IncrementVersion on an identifier returns a version
\* strictly greater, by Compare, than every version an earlier successful
\* IncrementVersion on it returned, even when the cache read fails or misses
\* while the durable write of an earlier increment is still pending.
C31_IncrementsStrictlyGrow ==
    \A a \in AppIDs :
        LET L == hist[a].incs IN
        \A j, k \in 1..Len(L) :
            j < k => Compare(L[k].version, L[j].version).val > 0

\* C32: the current version the durable store holds for an identifier never
\* decreases: the background writes of successive saves of one identifier
\* reach the durable store in the order the saves were issued, so that an
\* older version never overwrites a newer one.
C32_DurableNeverDecreases ==
    [][ \A a \in AppIDs :
          (~gitFile[a].nil /\ ~gitFile'[a].nil) =>
              Compare(gitFile'[a].Current, gitFile[a].Current).val >= 0
      ]_vars

\* C33: the push-needed flag is never lost: once a background write has
\* marked push-needed, the flag stays set until a push-retry that began
\* after the marking succeeds.  Hence, while the working copy holds a commit
\* whose push failed and whose write has done its marking, the flag is set.
C33_PushNeededNotLost ==
    (unpushed /\ \A i \in 1..Len(tasks) : tasks[i].pc # "pushfail") => pushNeeded

\* C34: no deadlock: in every interleaving of IncrementVersion (holding the
\* increment lock while it reads and saves), GetVersion, a background
\* durable write, the periodic push-retry, Health and the metrics logger,
\* as long as a task has lock operations left some task can go on, and a
\* task waits only for a lock whose holder can go on or waits for g.mu.
C34_NoDeadlock ==
    /\ (\E p \in LockTasks : lk[p] < Len(LockOps(p))) => \E p \in LockTasks : CanLockStep(p)
    /\ \A p \in LockTasks :
          (lk[p] < Len(LockOps(p)) /\ ~CanLockStep(p)) =>
              \E q \in LockTasks \ {p} :
                  /\ \E m \in {"r", "w"} :
                        <<m, LockOps(p)[lk[p] + 1][2]>> \in HeldAfter(q, lk[q])
                  /\ \/ CanLockStep(q)
                     \/ /\ LockOps(q)[lk[q] + 1][2] = "g.mu"
                        /\ \E r \in LockTasks \ {p, q} :
                              <<"w", "g.mu">> \in HeldAfter(r, lk[r]) /\ CanLockStep(r)

\* an IncrementVersion holds s.mu and waits for g.mu, which the background
\* write holds, while the other IncrementVersion and the push-retry wait for
\* s.mu
C34_Witness ==
    /\ lk["inc1"] = 1 /\ ~CanLockStep("inc1")
    /\ <<"w", "g.mu">> \in HeldAfter("write", lk["write"])
    /\ lk["inc2"] = 0 /\ ~CanLockStep("inc2")
    /\ lk["retry"] = 6 /\ ~CanLockStep("retry")

\* C35: every background durable write terminates after at most 3 attempts
\* in exactly one terminal outcome (success, push-failure, non-retryable
\* failure or retries exhausted), and on termination it has recorded exactly
\* one health update and exactly one start and one completion in the
\* metrics counters.
C35_WriteTerminates ==
    /\ [][ LET Completed(m) == m.operationsSucceeded + m.operationsFailed
               Terminal(e) == e.class # "retryable" \/ e.attempt = maxRetries - 1
               HealthFailure == gitHealth'.recentFailures = gitHealth.recentFailures + 1
           IN
           /\ \A e \in wlog' \ wlog :
                 /\ e.attempt < maxRetries
                 /\ \A d \in wlog :
                        (d.appID = e.appID /\ d.current = e.current) =>
                            ~Terminal(d) /\ d.attempt < e.attempt
                 /\ gitMetrics'.operationsTotal - gitMetrics.operationsTotal
                        = IF e.attempt = 0 THEN 1 ELSE 0
                 /\ Terminal(e) /\ e.class = "success" =>
                        /\ Completed(gitMetrics') = Completed(gitMetrics) + 1
                        /\ gitHealth'.recentFailures = 0
                        /\ Len(tasks') = Len(tasks) - 1
                 /\ Terminal(e) /\ e.class = "push-failure" =>
                        /\ Completed(gitMetrics') = Completed(gitMetrics)
                        /\ gitHealth' = gitHealth
                        /\ \E i \in 1..Len(tasks) :
                               tasks[i].pc = "try" /\ tasks'[i].pc = "pushfail"
                 /\ Terminal(e) /\ e.class = "non-retryable" =>
                        /\ Completed(gitMetrics') = Completed(gitMetrics) + 1
                        /\ HealthFailure
                        /\ Len(tasks') = Len(tasks) - 1
                 /\ Terminal(e) /\ e.class = "retryable" =>
                        /\ Completed(gitMetrics') = Completed(gitMetrics) + 1
                        /\ HealthFailure
                        /\ \E i \in 1..Len(tasks) :
                               tasks[i].pc = "try" /\ tasks'[i].pc = "exhmark"
                 /\ ~Terminal(e) =>
                        /\ Completed(gitMetrics') = Completed(gitMetrics)
                        /\ gitHealth' = gitHealth
                        /\ Len(tasks') = Len(tasks)
           /\ (wlog' = wlog /\ Len(tasks') < Len(tasks)) =>
                 \E i \in 1..Len(tasks) :
                     /\ tasks' = RemoveAt(tasks, i)
                     /\ gitMetrics'.operationsTotal = gitMetrics.operationsTotal
                     /\ \/ /\ tasks[i].pc = "pushfail"
                           /\ Completed(gitMetrics') = Completed(gitMetrics) + 1
                           /\ HealthFailure
                        \/ /\ tasks[i].pc = "exhmark"
                           /\ gitMetrics' = gitMetrics
                           /\ gitHealth' = gitHealth
         ]_vars
    /\ (tasks # <<>>) ~> (tasks = <<>>)

\* a write has used its three attempts and has ended; the other write of the
\* call ended in a push failure
C35_Witness ==
    /\ tasks = <<>>
    /\ gitMetrics.operationsTotal = 2
    /\ gitMetrics.operationsSucceeded + gitMetrics.operationsFailed = 2
    /\ \E e \in wlog : e.class = "retryable" /\ e.attempt = maxRetries - 1
    /\ \E e \in wlog : e.class = "push-failure"

\* C36: in every reachable state operationsSucceeded + operationsFailed <=
\* operationsTotal, with equality whenever no background durable write is in
\* flight.
C36_CountersBalance ==
    LET m == gitMetrics
    IN  /\ m.operationsSucceeded + m.operationsFailed <= m.operationsTotal
        /\ tasks = <<>> =>
               m.operationsSucceeded + m.operationsFailed = m.operationsTotal

\* both writes of a call have ended, one counted as a success and one as a
\* failure
C36_Witness ==
    /\ tasks = <<>>
    /\ gitMetrics.operationsSucceeded = 1
    /\ gitMetrics.operationsFailed = 1
    /\ gitMetrics.operationsTotal = 2

\* C37: operationsSucceeded is incremented only by a durable write whose
\* store operation returned success; a durable write that ends in
\* push-failure, non-retryable failure or exhausted retries increments
\* operationsFailed and not operationsSucceeded, whatever its attempt number
\* and latency.
C37_SucceededOnlyOnSuccess ==
    [][ LET m == gitMetrics
            EndsInFailure ==
                \/ \E e \in wlog' \ wlog :
                       \/ e.class = "non-retryable"
                       \/ e.class = "retryable" /\ e.attempt = maxRetries - 1
                \/ \E i \in 1..Len(tasks) :
                       tasks[i].pc = "pushfail" /\ tasks' = RemoveAt(tasks, i)
        IN
        /\ m'.operationsSucceeded # m.operationsSucceeded =>
               \E e \in wlog' \ wlog : e.class = "success"
        /\ EndsInFailure =>
               /\ m'.operationsFailed = m.operationsFailed + 1
               /\ m'.operationsSucceeded = m.operationsSucceeded
      ]_vars

\* C38: retriesTotal grows, for each background durable write, by exactly
\* the number of attempts made after the first one: every attempt after the
\* first adds 1 and nothing else changes the counter, so a write that fails
\* once and succeeds on its second attempt adds 1, and a write that uses all
\* 3 attempts adds 2.
C38_RetriesCountLaterAttempts ==
    [][ /\ \A e \in wlog' \ wlog :
              gitMetrics'.retriesTotal =
                  gitMetrics.retriesTotal + (IF e.attempt > 0 THEN 1 ELSE 0)
        /\ wlog' = wlog => gitMetrics'.retriesTotal = gitMetrics.retriesTotal
      ]_vars

\* C39 (as stated): SetVersion commits the updated record to the local
\* working copy before it pushes: when the push fails the local copy keeps
\* the new record and the error is classified as a push-failure, never as
\* retryable or non-retryable, so the write is not attempted again and is
\* left to the pending-push retry, which pushes exactly when the local head
\* differs from the remote head.
C39_PushesExactlyWhenHeadsDiffer ==
    [][ /\ \A x \in Causes : Classify(ErrPush(x)) = "push-failure"
        /\ \A e \in wlog' \ wlog :
              /\ e.class = "push-failure" =>
                     /\ ~gitFile'[e.appID].nil
                     /\ gitFile'[e.appID].Current = e.current
                     /\ unpushed'
                     /\ \E i \in 1..Len(tasks) :
                            /\ tasks[i].appID = e.appID
                            /\ tasks[i].version.Current = e.current
                            /\ tasks[i].pc = "try"
                            /\ tasks' = [tasks EXCEPT ![i].pc = "pushfail"]
              /\ \A d \in wlog :
                     (d.appID = e.appID /\ d.current = e.current) =>
                         d.class # "push-failure"
        /\ \A i \in 1..Len(tasks) :
              (tasks[i].pc = "pushfail" /\ Len(tasks') = Len(tasks)) =>
                  tasks'[i] = tasks[i]
        /\ (pushRetry = "push" /\ pushRetry' # "push") =>
              /\ lastPush'.called
              /\ lastPush'.differs = unpushed
              /\ lastPush'.pushed = (lastPush'.differs)
      ]_vars

\* C39 (amended): the same, but the pending-push retry pushes when the local
\* head differs from the remote head and also when the remote refs cannot be
\* listed.
C39_PushFailureLeftToRetry ==
    [][ /\ \A x \in Causes : Classify(ErrPush(x)) = "push-failure"
        /\ \A e \in wlog' \ wlog :
              /\ e.class = "push-failure" =>
                     /\ ~gitFile'[e.appID].nil
                     /\ gitFile'[e.appID].Current = e.current
                     /\ unpushed'
                     /\ \E i \in 1..Len(tasks) :
                            /\ tasks[i].appID = e.appID
                            /\ tasks[i].version.Current = e.current
                            /\ tasks[i].pc = "try"
                            /\ tasks' = [tasks EXCEPT ![i].pc = "pushfail"]
              /\ \A d \in wlog :
                     (d.appID = e.appID /\ d.current = e.current) =>
                         d.class # "push-failure"
        /\ \A i \in 1..Len(tasks) :
              (tasks[i].pc = "pushfail" /\ Len(tasks') = Len(tasks)) =>
                  tasks'[i] = tasks[i]
        /\ (pushRetry = "push" /\ pushRetry' # "push") =>
              /\ lastPush'.called
              /\ lastPush'.differs = unpushed
              /\ lastPush'.pushed = (lastPush'.differs \/ ~lastPush'.listed)
      ]_vars

\* the push of a write failed, the working copy kept its record, and the
\* pending-push retry listed the remote refs, found the heads different and
\* pushed
C39_Witness ==
    /\ \E e \in wlog :
          e.class = "push-failure" /\ gitFile[e.appID].Current = e.current
    /\ lastPush.called /\ lastPush.listed /\ lastPush.differs /\ lastPush.pushed
    /\ ~unpushed

\* C40: Initialize loads every record of the durable store into the cache:
\* a failure to list the durable store makes Initialize return an error
\* without starting the metrics task and the push-retry task, while a
\* failure of the cache bulk load is not fatal - Initialize still succeeds
\* and both background tasks are started.
C40_InitializeOutcomes ==
    [][ (phase = "new" /\ phase' = "serving") =>
          /\ initCall'.called
          /\ initCall'.listErr =>
                 /\ initCall'.err
                 /\ ~bgStarted'
                 /\ redis' = redis
          /\ (~initCall'.listErr /\ initCall'.cacheErr) =>
                 /\ ~initCall'.err
                 /\ bgStarted'
          /\ (~initCall'.listErr /\ ~initCall'.cacheErr) =>
                 /\ ~initCall'.err
                 /\ bgStarted'
                 /\ \A a \in AppIDs : ~gitFile[a].nil => redis'[a] = gitFile[a]
      ]_vars

\* Initialize met a failing cache bulk load over a durable store that holds
\* a record: it returned no error, the cache is empty and a call is served
C40_Witness ==
    /\ initCall.called /\ initCall.cacheErr /\ ~initCall.err
    /\ bgStarted
    /\ \E a \in AppIDs : ~gitFile[a].nil /\ redis[a].nil
    /\ ncalls > 0

====
